---------------------------- MODULE Spec2Model ----------------------------
(***************************************************************************)
(* The shared-memory ring buffer that rocket-welder-sdk consumes frames    *)
(* from: one writer process and one reader process that share a control    *)
(* block (OIEB), a metadata region, a payload ring and two semaphores.     *)
(*                                                                         *)
(* The OIEB layout is the struct of src/python/oieb_reader.cpp; the reader *)
(* side is driven by the consumer loop of                                  *)
(* src/cpp/include/rocket-welder/client.hpp (process_shared_memory) and    *)
(* src/cpp/examples/simple_client_minimal.cpp.  The bodies of              *)
(* zerobuffer::Reader and zerobuffer::Writer are not part of src/; their   *)
(* steps follow sections 3 to 7 of spec.md.                                *)
(*                                                                         *)
(* The ring is addressed in cells.  A frame header and a wrap marker take  *)
(* HeaderSize cells, a payload byte takes one cell.                        *)
(***************************************************************************)
EXTENDS Integers, Sequences, FiniteSets, TLC

\* ------------------------------------------------------------------ bounds
PayloadSize  == 4     \* payload_size of the ring, in cells
MetadataSize == 2     \* metadata_size of the metadata region, in cells
MaxLen       == 2     \* longest payload a writer passes besides the oversize one
MaxWrites    == 2     \* frames written in one run of Spec
DeepPayloadSize == 6  \* payload_size of the ring in DeepSpec
MaxDeepWrites == 5    \* frames written in one run of DeepSpec
MaxMetaCalls == 2     \* write_metadata calls in one run
MaxField     == 1     \* largest value of a field of a block handed to the tool
MaxParams    == 2     \* most parameters in the query of an shm connection string
MaxPairs     == 3     \* most key=value pairs in a caps string
MaxFrames    == 3     \* frames the writer offers to the minimal example
MaxArgs      == 2     \* most command line arguments after the program name
MaxMeta      == 6     \* most metadata bytes the reader holds

\* ------------------------------------------------------- program constants
OiebSize     == 128   \* the literal oieb_size must read back as
HeaderSize   == 1     \* cells taken by a frame header or a wrap marker
MetaPrefix   == 1     \* cells taken by the metadata length prefix
WriterPid    == 1
ReaderPid    == 2
DefaultBufferSize   == 10485760  \* ConnectionString::buffer_size
DefaultMetadataSize == 65536     \* ConnectionString::metadata_size
ProtocolNone  == 0    \* enum class Protocol
ProtocolShm   == 1
ProtocolMjpeg == 2
ProtocolHttp  == 4
ProtocolTcp   == 8

\* operator| of Protocol: the bitwise or of the 32-bit values; the flags
\* take the low four bits.
ProtocolOr(a, b) ==
    LET Bit(x, i) == (x \div (2 ^ i)) % 2
        Or(i) == IF Bit(a, i) = 1 \/ Bit(b, i) = 1 THEN 2 ^ i ELSE 0
    IN  Or(0) + Or(1) + Or(2) + Or(3)

\* The protocols parse_protocol can yield.
Protocols ==
    {ProtocolShm, ProtocolOr(ProtocolMjpeg, ProtocolHttp),
     ProtocolOr(ProtocolMjpeg, ProtocolTcp), ProtocolHttp, ProtocolTcp}

VARIABLES
    oieb,        \* the control block
    ring,        \* the payload ring: cell index -> cell
    metadata,    \* the metadata region: sequence of cells written so far
    dataSem,     \* "data available" semaphore count
    spaceSem,    \* "space available" semaphore count
    alive,       \* pids of the processes that are running
    wpc,         \* writer: position in write_frame / write_metadata
    wframe,      \* writer: the payload of the write_frame call in progress
    wfree,       \* writer: payload_free_bytes as loaded for the decrement
    wused,       \* writer: bytes the frame in progress takes (tail + header + payload)
    wresult,     \* writer: result of the last call
    rpc,         \* reader / consumer loop: position
    rframe,      \* reader: the Frame view returned by read_frame
    rfree,       \* reader: payload_free_bytes as loaded for the recomputation
    rresult,     \* reader: result of the last read_frame call
    written,     \* history: payloads put into the ring, in order
    delivered,   \* history: payloads the consumer saw in its frame views, in order
    nReleased,   \* history: completed frame releases
    nDataSignals,   \* history: signals of the data semaphore
    nSpaceSignals,  \* history: signals of the space semaphore
    metaAccepted, \* history: the bytes of every write_metadata that returned Ok
    metaCalls    \* history: write_metadata calls made

ringVars == <<oieb, ring, metadata, dataSem, spaceSem, alive, wpc, wframe, wfree,
              wused, wresult, rpc, rframe, rfree, rresult, written, delivered,
              nReleased, nDataSignals, nSpaceSignals, metaAccepted, metaCalls>>

\* State of the diagnostic tool (src/python/oieb_reader.cpp, main).
VARIABLES
    targc,       \* tool: argc
    tpc,         \* tool: position in main
    tfd,         \* tool: the descriptor of shm_open: "unset", "open", "closed"
    tmap,        \* tool: the mapping of mmap: "none", "mapped", "unmapped"
    tvalid,      \* tool: the local valid
    tout,        \* tool: kinds of lines printed so far
    texit        \* tool: exit code, -1 while main runs

toolVars == <<targc, tpc, tfd, tmap, tvalid, tout, texit>>

\* The tool before main runs.
ToolIdle ==
    /\ tpc = "start"
    /\ tfd = "unset"
    /\ tmap = "none"
    /\ tvalid = TRUE
    /\ tout = {}
    /\ texit = -1

\* State of a RocketWelderClient (src/cpp/include/rocket-welder/client.hpp)
\* and of the thread that drives it.
VARIABLES
    cprotocol,       \* connection_.protocol
    frame_callback_, \* "none" or "set"
    running_,
    stop_requested_,
    processing_thread_, \* "none", "running", "finished" (not joined), "joined"
    reader_,         \* "empty" or "held"
    writer_,         \* "empty" or "held"
    video_format_,   \* whether the optional holds a format
    cpc,             \* position of the processing thread
    ucall,           \* the call of the driving thread in progress, or "none"
    ulast,           \* the last call that completed
    uthrown,         \* what the last completed call threw, or "none"
    ccaught,         \* history: kinds of exceptions the processing thread caught
    cframe,          \* the Frame of the loop body's scope: "none" or "held"
    nafter           \* history: callbacks begun since the stop was requested

clientVars == <<cprotocol, frame_callback_, running_, stop_requested_,
                processing_thread_, reader_, writer_, video_format_, cpc,
                ucall, ulast, uthrown, ccaught, cframe, nafter>>

\* A client after construction.
ClientIdle ==
    /\ frame_callback_ = "none"
    /\ running_ = FALSE
    /\ stop_requested_ = FALSE
    /\ processing_thread_ = "none"
    /\ reader_ = "empty"
    /\ writer_ = "empty"
    /\ video_format_ = FALSE
    /\ cpc = "idle"
    /\ ucall = "none"
    /\ ulast = "none"
    /\ uthrown = "none"
    /\ ccaught = {}
    /\ cframe = "none"
    /\ nafter = 0

\* A caller of ConnectionString::parse / try_parse
\* (src/cpp/include/rocket-welder/connection_string.hpp).
VARIABLES
    pparts,      \* the connection string handed over, by its pieces
    pcalls,      \* which of parse and try_parse have been called on it
    poutcome,    \* what parse returned or threw
    ptry         \* what try_parse returned: an optional

parseVars == <<pparts, pcalls, poutcome, ptry>>

ParseIdle ==
    /\ pcalls = {}
    /\ poutcome = [state |-> "pending", thrown |-> "none"]
    /\ ptry = <<>>

\* A user of GstCaps (src/cpp/include/rocket-welder/gst_caps.hpp).
VARIABLES
    gparts,      \* the caps string handed to parse, by its pieces
    gcaps,       \* the GstCaps made by parse or from_simple, or what parse threw
    gsize        \* what get_frame_size returned: an optional

capsVars == <<gparts, gcaps, gsize>>

CapsIdle ==
    /\ gcaps = [state |-> "pending", thrown |-> "none"]
    /\ gsize = <<>>

\* No GstCaps in use.
CapsUnused ==
    /\ gparts = <<>>
    /\ CapsIdle

\* A second thread that calls start() on the client
\* (src/cpp/include/rocket-welder/client.hpp, lines 120-143).
VARIABLES
    opc,         \* position of the second caller in start()
    terminated   \* std::terminate was called: the process has ended

raceVars == <<opc, terminated>>

RaceUnused ==
    /\ opc = "idle"
    /\ terminated = FALSE

\* main of src/cpp/examples/simple_client_minimal.cpp.
VARIABLES
    mpc,         \* position in main
    mframe,      \* the Frame of the current scope: "none" or "held"
    frame_count, \* the global frame_count
    exit_after,  \* --exit-after, -1 without it
    mrunning     \* the global running, cleared by the signal handler

exampleVars == <<mpc, mframe, frame_count, exit_after, mrunning>>

ExampleIdle ==
    /\ mpc = "start"
    /\ mframe = "none"
    /\ frame_count = 0
    /\ mrunning = TRUE

ExampleUnused ==
    /\ exit_after = -1
    /\ ExampleIdle

\* A caller of RocketWelderClient::from_args and of Client::from.
VARIABLES
    senv,        \* CONNECTION_STRING: an optional text
    sargs,       \* argv[1..argc-1]
    sfrom_args,  \* the string from_args selects: an optional
    sfrom        \* the string Client::from selects: an optional

selectVars == <<senv, sargs, sfrom_args, sfrom>>

SelectIdle ==
    /\ sfrom_args = <<>>
    /\ sfrom = <<>>

SelectUnused ==
    /\ senv = <<>>
    /\ sargs = <<>>
    /\ SelectIdle

\* A call of RocketWelderClient::parse_metadata.
VARIABLES
    dmeta,       \* the metadata the reader holds: a sequence of bytes
    dptr,        \* whether get_metadata_raw returns a pointer
    dreads,      \* how many bytes, counted from the pointer, the call read
    doutcome     \* "pending", or how the call ended and with what format

metaParseVars == <<dmeta, dptr, dreads, doutcome>>

MetaParseIdle ==
    /\ dreads = 0
    /\ doutcome = [state |-> "pending"]

MetaParseUnused ==
    /\ dmeta = <<>>
    /\ dptr = TRUE
    /\ MetaParseIdle

\* A caller of ConnectionString::to_string followed by parse.
VARIABLES
    roundConn,   \* the ConnectionString c
    roundText,   \* c.to_string(): an optional
    roundBack    \* what parse(c.to_string()) returned or threw

roundVars == <<roundConn, roundText, roundBack>>

RoundIdle ==
    /\ roundText = <<>>
    /\ roundBack = [state |-> "pending", thrown |-> "none"]

RoundUnused ==
    /\ roundConn = <<>>
    /\ RoundIdle

\* Everything outside the ring buffer and its two processes.
progVars == <<toolVars, clientVars, parseVars, capsVars, raceVars, exampleVars,
              selectVars, metaParseVars, roundVars>>

\* What the actions of one component leave alone.
otherThanTool == <<ringVars, clientVars, parseVars, capsVars, raceVars,
                   exampleVars, selectVars, metaParseVars, roundVars>>

otherThanClient == <<ringVars, toolVars, parseVars, capsVars, raceVars,
                     exampleVars, selectVars, metaParseVars, roundVars>>

otherThanParse == <<ringVars, toolVars, clientVars, capsVars, raceVars,
                    exampleVars, selectVars, metaParseVars, roundVars>>

otherThanCaps == <<ringVars, toolVars, clientVars, parseVars, raceVars,
                   exampleVars, selectVars, metaParseVars, roundVars>>

otherThanExample == <<ringVars, toolVars, clientVars, parseVars, capsVars,
                      raceVars, selectVars, metaParseVars, roundVars>>

otherThanSelect == <<ringVars, toolVars, clientVars, parseVars, capsVars,
                     raceVars, exampleVars, metaParseVars, roundVars>>

otherThanMetaParse == <<ringVars, toolVars, clientVars, parseVars, capsVars,
                        raceVars, exampleVars, selectVars, roundVars>>

otherThanRound == <<ringVars, toolVars, clientVars, parseVars, capsVars,
                    raceVars, exampleVars, selectVars, metaParseVars>>

otherThanClientAndRace == <<ringVars, toolVars, parseVars, capsVars, exampleVars,
                            selectVars, metaParseVars, roundVars>>

\* The components that take no part in a run, all but those named.
OthersUnused(used) ==
    /\ IF "tool" \in used THEN TRUE ELSE targc = 2 /\ ToolIdle
    /\ IF "client" \in used THEN TRUE ELSE cprotocol = ProtocolShm /\ ClientIdle
    /\ IF "parse" \in used THEN TRUE ELSE pparts = <<>> /\ ParseIdle
    /\ IF "caps" \in used THEN TRUE ELSE CapsUnused
    /\ IF "race" \in used THEN TRUE ELSE RaceUnused
    /\ IF "example" \in used THEN TRUE ELSE ExampleUnused
    /\ IF "select" \in used THEN TRUE ELSE SelectUnused
    /\ IF "metadata" \in used THEN TRUE ELSE MetaParseUnused
    /\ IF "round" \in used THEN TRUE ELSE RoundUnused

ProgIdle ==
    /\ targc = 2
    /\ ToolIdle
    /\ cprotocol = ProtocolShm
    /\ ClientIdle
    /\ pparts = <<>>
    /\ ParseIdle
    /\ CapsUnused
    /\ OthersUnused({"tool", "client", "parse", "caps"})

vars == <<ringVars, progVars>>

\* -------------------------------------------------------------------- cells
FreeCell   == [kind |-> "free", seq |-> 0, len |-> 0, byte |-> 0]
WrapMarker == [kind |-> "wrap", seq |-> 0, len |-> 0, byte |-> 0]
FrameHeader(s, l) == [kind |-> "hdr", seq |-> s, len |-> l, byte |-> 0]
DataCell(b) == [kind |-> "data", seq |-> 0, len |-> 0, byte |-> b]

NoFrame == [pos |-> 0, len |-> 0, seq |-> 0, skipped |-> 0]

\* The payload of the frame with sequence number s and n bytes: every byte
\* carries s, so that the frames of a run differ from each other.
Payload(s, n) == [i \in 1..n |-> s]

\* Lengths a caller passes to write_frame: 0..MaxLen, and one that exceeds
\* payload_size minus the framing overhead.
FrameLens == (0..MaxLen) \cup {oieb.payload_size}

\* Lengths a caller passes to write_metadata; MetadataSize itself is too
\* large once the length prefix is added.
MetaLens == 0..MetadataSize

Cells == 0..(oieb.payload_size - 1)

\* ------------------------------------------------------------ control block
InitOIEB(psize) ==
    [ oieb_size              |-> OiebSize,
      version                |-> [major |-> 1, minor |-> 0, patch |-> 0, reserved |-> 0],
      metadata_size          |-> MetadataSize,
      metadata_free_bytes    |-> MetadataSize,
      metadata_written_bytes |-> 0,
      payload_size           |-> psize,
      payload_free_bytes     |-> psize,
      payload_write_pos      |-> 0,
      payload_read_pos       |-> 0,
      payload_written_count  |-> 0,
      payload_read_count     |-> 0,
      writer_pid             |-> WriterPid,
      reader_pid             |-> ReaderPid ]

is_process_alive(pid) == pid \in alive

\* The ring, the semaphores and both processes after the reader created the
\* buffer with a payload ring of psize cells and both sides attached.
RingIdle(psize) ==
    /\ ring = [i \in 0..(psize - 1) |-> FreeCell]
    /\ metadata = <<>>
    /\ dataSem = 0
    /\ spaceSem = 0
    /\ alive = {WriterPid, ReaderPid}
    /\ wpc = "idle"
    /\ wframe = <<>>
    /\ wfree = 0
    /\ wused = 0
    /\ wresult = "none"
    /\ rpc = "loop"
    /\ rframe = NoFrame
    /\ rfree = 0
    /\ rresult = "none"
    /\ written = <<>>
    /\ delivered = <<>>
    /\ nReleased = 0
    /\ nDataSignals = 0
    /\ nSpaceSignals = 0
    /\ metaAccepted = <<>>
    /\ metaCalls = 0

\* The state after buffer creation; nothing else runs.
InitWith(psize) ==
    /\ oieb = InitOIEB(psize)
    /\ RingIdle(psize)
    /\ ProgIdle

writerVars == <<wpc, wframe, wfree, wused, wresult>>
readerVars == <<rpc, rframe, rfree, rresult>>
metaVars   == <<metadata, metaAccepted, metaCalls>>
histVars   == <<written, delivered, nReleased, nDataSignals, nSpaceSignals>>

\* ------------------------------------------------------------------ writer
\* Cells a frame of n payload bytes takes.
FrameBytes(n) == HeaderSize + n

\* Whether a frame of n payload bytes written at pos would overrun the
\* physical end of the ring.
MustWrap(pos, n) == pos + FrameBytes(n) > oieb.payload_size

\* Free bytes write_frame needs at write position pos: the frame, and the
\* tail the wrap marker gives up when the frame restarts at offset 0.
RequiredBytes(pos, n) ==
    IF MustWrap(pos, n) THEN (oieb.payload_size - pos) + FrameBytes(n) ELSE FrameBytes(n)

\* Where the frame's header goes.
FrameStart(pos, n) == IF MustWrap(pos, n) THEN 0 ELSE pos

\* A frame too large for the ring whatever its state.
\* Variant: the capacity test forgets the framing overhead.
ExceedsCapacity_NoHeader(n) == n > oieb.payload_size

ExceedsCapacity(n) == n > oieb.payload_size - HeaderSize

\* Variant: the position is advanced without the modulo.
NextWritePos_NoMod(pos, n) == FrameStart(pos, n) + FrameBytes(n)

\* payload_write_pos after the frame: advanced past it, modulo the ring size.
NextWritePos(pos, n) == (FrameStart(pos, n) + FrameBytes(n)) % oieb.payload_size

\* The ring after header + payload (and the wrap marker first when needed)
\* were stored for the frame with sequence number s.
RingWithFrame(r, pos, s, data) ==
    LET n     == Len(data)
        start == FrameStart(pos, n)
    IN  [i \in Cells |->
            IF i = start THEN FrameHeader(s, n)
            ELSE IF i > start /\ i <= start + n THEN DataCell(data[i - start])
            ELSE IF MustWrap(pos, n) /\ i = pos THEN WrapMarker
            ELSE r[i]]

\* write_frame(bytes, timeout): the call.  An oversize frame fails at once.
\* limit bounds the frames of a run.
W_WriteFrame(n, limit) ==
    /\ wpc = "idle"
    /\ is_process_alive(WriterPid)
    /\ oieb.payload_written_count < limit
    /\ IF ExceedsCapacity(n)
       THEN /\ wresult' = "CapacityError"
            /\ UNCHANGED <<wpc, wframe, wfree, wused>>
       ELSE /\ wframe' = Payload(oieb.payload_written_count + 1, n)
            /\ wpc' = "check"
            /\ UNCHANGED <<wfree, wused, wresult>>
    /\ UNCHANGED <<oieb, ring, dataSem, spaceSem, alive, readerVars, metaVars, histVars>>
    /\ UNCHANGED progVars

\* write_frame: read the OIEB; with enough free bytes store the frame and
\* advance payload_write_pos, otherwise check the reader and block.
W_Check ==
    /\ wpc = "check"
    /\ is_process_alive(WriterPid)
    /\ LET pos == oieb.payload_write_pos
           n   == Len(wframe)
           seq == oieb.payload_written_count + 1
       IN  IF RequiredBytes(pos, n) <= oieb.payload_free_bytes
           THEN /\ ring' = RingWithFrame(ring, pos, seq, wframe)
                /\ oieb' = [oieb EXCEPT !.payload_write_pos = NextWritePos(pos, n)]
                /\ wused' = RequiredBytes(pos, n)
                /\ wpc' = "dec"
                /\ written' = Append(written,
                        [seq |-> seq, data |-> wframe, at |-> pos,
                         pos |-> FrameStart(pos, n), wrapped |-> MustWrap(pos, n),
                         used |-> RequiredBytes(pos, n)])
                /\ UNCHANGED <<wresult, wframe>>
           ELSE /\ IF is_process_alive(oieb.reader_pid)
                   THEN wpc' = "wait" /\ UNCHANGED <<wresult, wframe>>
                   ELSE wpc' = "idle" /\ wresult' = "ReaderDead" /\ wframe' = <<>>
                /\ UNCHANGED <<ring, oieb, wused, written>>
    /\ UNCHANGED <<wfree, dataSem, spaceSem, alive, readerVars, metaVars,
                   delivered, nReleased, nDataSignals, nSpaceSignals>>
    /\ UNCHANGED progVars

\* write_frame: payload_free_bytes -= used, first half: load the field.
W_LoadFree ==
    /\ wpc = "dec"
    /\ is_process_alive(WriterPid)
    /\ wfree' = oieb.payload_free_bytes
    /\ wpc' = "dec2"
    /\ UNCHANGED <<oieb, ring, dataSem, spaceSem, alive, wframe, wused, wresult,
                   readerVars, metaVars, histVars>>
    /\ UNCHANGED progVars

\* Variant: the frame is stored but payload_written_count is not incremented.
W_StoreFree_NoCount ==
    /\ wpc = "dec2"
    /\ is_process_alive(WriterPid)
    /\ oieb' = [oieb EXCEPT !.payload_free_bytes = wfree - wused]
    /\ wfree' = 0
    /\ wused' = 0
    /\ wframe' = <<>>
    /\ wpc' = "signal"
    /\ UNCHANGED <<ring, dataSem, spaceSem, alive, wresult, readerVars, metaVars,
                   histVars>>
    /\ UNCHANGED progVars

\* write_frame: second half: store the decremented value, then increment
\* payload_written_count.
W_StoreFree ==
    /\ wpc = "dec2"
    /\ is_process_alive(WriterPid)
    /\ oieb' = [oieb EXCEPT !.payload_free_bytes = wfree - wused,
                            !.payload_written_count = @ + 1]
    /\ wfree' = 0
    /\ wused' = 0
    /\ wframe' = <<>>
    /\ wpc' = "signal"
    /\ UNCHANGED <<ring, dataSem, spaceSem, alive, wresult, readerVars, metaVars,
                   histVars>>
    /\ UNCHANGED progVars

\* write_frame: signal the data semaphore and return.
W_Signal ==
    /\ wpc = "signal"
    /\ is_process_alive(WriterPid)
    /\ dataSem' = dataSem + 1
    /\ nDataSignals' = nDataSignals + 1
    /\ wresult' = "Ok"
    /\ wpc' = "idle"
    /\ UNCHANGED <<oieb, ring, spaceSem, alive, wframe, wfree, wused, readerVars,
                   metaVars, written, delivered, nReleased, nSpaceSignals>>
    /\ UNCHANGED progVars

\* write_frame blocked on the space semaphore: woken by a signal.
W_Wake ==
    /\ wpc = "wait"
    /\ is_process_alive(WriterPid)
    /\ spaceSem > 0
    /\ spaceSem' = spaceSem - 1
    /\ wpc' = "check"
    /\ UNCHANGED <<oieb, ring, dataSem, alive, wframe, wfree, wused, wresult,
                   readerVars, metaVars, histVars>>
    /\ UNCHANGED progVars

\* write_frame blocked on the space semaphore: a wake-up without a signal.
W_SpuriousWake ==
    /\ wpc = "wait"
    /\ is_process_alive(WriterPid)
    /\ wpc' = "check"
    /\ UNCHANGED <<oieb, ring, dataSem, spaceSem, alive, wframe, wfree, wused,
                   wresult, readerVars, metaVars, histVars>>
    /\ UNCHANGED progVars

\* write_frame blocked on the space semaphore: the timeout elapses.
W_Timeout ==
    /\ wpc = "wait"
    /\ is_process_alive(WriterPid)
    /\ wresult' = "Timeout"
    /\ wframe' = <<>>
    /\ wpc' = "idle"
    /\ UNCHANGED <<oieb, ring, dataSem, spaceSem, alive, wfree, wused, readerVars,
                   metaVars, histVars>>
    /\ UNCHANGED progVars

\* write_frame blocked on the space semaphore: the periodic liveness check
\* finds the reader's pid dead.
W_ReaderDead ==
    /\ wpc = "wait"
    /\ is_process_alive(WriterPid)
    /\ ~is_process_alive(oieb.reader_pid)
    /\ wresult' = "ReaderDead"
    /\ wframe' = <<>>
    /\ wpc' = "idle"
    /\ UNCHANGED <<oieb, ring, dataSem, spaceSem, alive, wfree, wused, readerVars,
                   metaVars, histVars>>
    /\ UNCHANGED progVars

\* ---------------------------------------------------------------- metadata
\* The metadata record: a length prefix followed by that many bytes.
MetadataRecord(bytes) == <<Len(bytes)>> \o bytes

\* Variant: write_metadata without the AlreadyWritten test.
W_WriteMetadata_Rewrite(n) ==
    /\ wpc = "idle"
    /\ is_process_alive(WriterPid)
    /\ metaCalls < MaxMetaCalls
    /\ metaCalls' = metaCalls + 1
    /\ LET bytes == [i \in 1..n |-> metaCalls + 1]
       IN  IF Len(MetadataRecord(bytes)) > oieb.metadata_size
           THEN /\ wresult' = "TooLarge"
                /\ UNCHANGED <<metadata, wpc, wframe>>
           ELSE /\ metadata' = MetadataRecord(bytes)
                /\ wframe' = bytes
                /\ wpc' = "meta"
                /\ UNCHANGED wresult
    /\ UNCHANGED <<oieb, ring, dataSem, spaceSem, alive, wfree, wused, readerVars,
                   metaAccepted, histVars>>
    /\ UNCHANGED progVars

\* write_metadata(bytes): the call.  The bytes of call number c all carry c.
W_WriteMetadata(n) ==
    /\ wpc = "idle"
    /\ is_process_alive(WriterPid)
    /\ metaCalls < MaxMetaCalls
    /\ metaCalls' = metaCalls + 1
    /\ LET bytes == [i \in 1..n |-> metaCalls + 1]
       IN  IF oieb.metadata_written_bytes > 0
           THEN /\ wresult' = "AlreadyWritten"
                /\ UNCHANGED <<metadata, wpc, wframe>>
           ELSE IF Len(MetadataRecord(bytes)) > oieb.metadata_free_bytes
           THEN /\ wresult' = "TooLarge"
                /\ UNCHANGED <<metadata, wpc, wframe>>
           ELSE /\ metadata' = MetadataRecord(bytes)
                /\ wframe' = bytes
                /\ wpc' = "meta"
                /\ UNCHANGED wresult
    /\ UNCHANGED <<oieb, ring, dataSem, spaceSem, alive, wfree, wused, readerVars,
                   metaAccepted, histVars>>
    /\ UNCHANGED progVars

\* write_metadata: the record is in the region; update the OIEB and return.
W_MetaCommit ==
    /\ wpc = "meta"
    /\ is_process_alive(WriterPid)
    /\ oieb' = [oieb EXCEPT !.metadata_written_bytes = Len(metadata),
                            !.metadata_free_bytes = @ - Len(metadata)]
    /\ metaAccepted' = Append(metaAccepted, wframe)
    /\ wresult' = "Ok"
    /\ wframe' = <<>>
    /\ wpc' = "idle"
    /\ UNCHANGED <<ring, metadata, metaCalls, dataSem, spaceSem, alive, wfree,
                   wused, readerVars, histVars>>
    /\ UNCHANGED progVars

\* get_metadata(): the bytes after the prefix once metadata_written_bytes > 0.
MetadataAvailable == oieb.metadata_written_bytes > 0

GetMetadata == SubSeq(metadata, MetaPrefix + 1, MetaPrefix + metadata[1])

\* ------------------------------------------------------------------ reader
\* The frame header read_frame finds: at payload_read_pos, or at offset 0
\* when a wrap marker stands there.
ParsePos(r, rpos) == IF r[rpos].kind = "wrap" THEN 0 ELSE rpos

SkippedTail(r, rpos) == IF r[rpos].kind = "wrap" THEN oieb.payload_size - rpos ELSE 0

\* Whether the header at the parse position is the next frame: a real
\* header, the next sequence number, and a length that fits the ring and
\* the bytes the OIEB says are in use.
ValidHeader(r, o) ==
    LET pos == ParsePos(r, o.payload_read_pos)
        hdr == r[pos]
    IN  /\ hdr.kind = "hdr"
        /\ hdr.seq = o.payload_read_count + 1
        /\ pos + FrameBytes(hdr.len) <= o.payload_size
        /\ SkippedTail(r, o.payload_read_pos) + FrameBytes(hdr.len)
              <= o.payload_size - o.payload_free_bytes

\* The bytes a Frame view shows now (the view owns no memory).
ViewBytes(r, f) == [i \in 1..f.len |-> r[f.pos + i].byte]

\* Bytes a release gives back: header, payload and the tail skipped at a
\* wrap marker.
ReleasedBytes(f) == f.skipped + FrameBytes(f.len)

\* Variant: WriterDeadException handled like any other exception, the loop
\* goes round again.
AfterWriterDead_Retry == "loop"

\* Where the consumer loop goes on WriterDeadException: the handler breaks
\* out of the loop (client.hpp:204-206, simple_client_minimal.cpp:124-126).
AfterWriterDead == "stopped"

\* Consumer loop, client.hpp:183 / simple_client_minimal.cpp:106: call
\* read_frame.  The peer is checked before blocking.
R_ReadFrame ==
    /\ rpc = "loop"
    /\ is_process_alive(ReaderPid)
    /\ IF /\ ~is_process_alive(oieb.writer_pid)
          /\ oieb.payload_written_count = oieb.payload_read_count
       THEN rresult' = "WriterDead" /\ rpc' = AfterWriterDead
       ELSE rpc' = "wait" /\ UNCHANGED rresult
    /\ UNCHANGED <<oieb, ring, dataSem, spaceSem, alive, rframe, rfree, writerVars,
                   metaVars, histVars>>
    /\ UNCHANGED progVars

\* read_frame blocked on the data semaphore: woken by a signal; with a frame
\* enqueued it parses the header and returns the view, otherwise it blocks
\* again.  A bad header is an exception the consumer loop catches
\* (client.hpp:207) before it goes round again.
R_Wake ==
    /\ rpc = "wait"
    /\ is_process_alive(ReaderPid)
    /\ dataSem > 0
    /\ dataSem' = dataSem - 1
    /\ IF oieb.payload_written_count > oieb.payload_read_count
       THEN IF ValidHeader(ring, oieb)
            THEN LET pos == ParsePos(ring, oieb.payload_read_pos)
                 IN  /\ rframe' = [pos |-> pos, len |-> ring[pos].len,
                                   seq |-> ring[pos].seq,
                                   skipped |-> SkippedTail(ring, oieb.payload_read_pos)]
                     /\ rresult' = "Ok"
                     /\ rpc' = "got"
            ELSE /\ rresult' = "Corruption"
                 /\ rpc' = "loop"
                 /\ UNCHANGED rframe
       ELSE UNCHANGED <<rpc, rframe, rresult>>
    /\ UNCHANGED <<oieb, ring, spaceSem, alive, rfree, writerVars, metaVars, histVars>>
    /\ UNCHANGED progVars

\* read_frame: the timeout elapses; the invalid frame makes the loop
\* continue (client.hpp:185).
R_Timeout ==
    /\ rpc = "wait"
    /\ is_process_alive(ReaderPid)
    /\ rresult' = "Timeout"
    /\ rpc' = "loop"
    /\ UNCHANGED <<oieb, ring, dataSem, spaceSem, alive, rframe, rfree, writerVars,
                   metaVars, histVars>>
    /\ UNCHANGED progVars

\* read_frame: the periodic liveness check finds the writer's pid dead and
\* no new frame; WriterDeadException breaks the loop (client.hpp:204).
R_WriterDead ==
    /\ rpc = "wait"
    /\ is_process_alive(ReaderPid)
    /\ ~is_process_alive(oieb.writer_pid)
    /\ oieb.payload_written_count = oieb.payload_read_count
    /\ rresult' = "WriterDead"
    /\ rpc' = AfterWriterDead
    /\ UNCHANGED <<oieb, ring, dataSem, spaceSem, alive, rframe, rfree, writerVars,
                   metaVars, histVars>>
    /\ UNCHANGED progVars

\* Variant: the Frame outlives the iteration and is never released.
R_Callback_KeepsFrame ==
    /\ rpc = "got"
    /\ is_process_alive(ReaderPid)
    /\ delivered' = Append(delivered,
                        [seq |-> rframe.seq, data |-> ViewBytes(ring, rframe)])
    /\ rpc' = "loop"
    /\ UNCHANGED <<oieb, ring, dataSem, spaceSem, alive, rframe, rfree, rresult,
                   writerVars, metaVars, written, nReleased, nDataSignals,
                   nSpaceSignals>>
    /\ UNCHANGED progVars

\* The consumer processes the valid frame through its zero-copy view
\* (client.hpp:199-202, simple_client_minimal.cpp:108-122); the Frame then
\* leaves its scope, which releases it.
R_Callback ==
    /\ rpc = "got"
    /\ is_process_alive(ReaderPid)
    /\ delivered' = Append(delivered,
                        [seq |-> rframe.seq, data |-> ViewBytes(ring, rframe)])
    /\ rpc' = "release"
    /\ UNCHANGED <<oieb, ring, dataSem, spaceSem, alive, rframe, rfree, rresult,
                   writerVars, metaVars, written, nReleased, nDataSignals,
                   nSpaceSignals>>
    /\ UNCHANGED progVars

\* The Frame goes out of scope (simple_client_minimal.cpp:123): the release
\* advances payload_read_pos, increments payload_read_count and loads
\* payload_free_bytes to recompute it.
R_Release ==
    /\ rpc = "release"
    /\ is_process_alive(ReaderPid)
    /\ oieb' = [oieb EXCEPT !.payload_read_pos =
                                (rframe.pos + FrameBytes(rframe.len)) % oieb.payload_size,
                            !.payload_read_count = @ + 1]
    /\ rfree' = oieb.payload_free_bytes
    /\ nReleased' = nReleased + 1
    /\ rpc' = "rel2"
    /\ UNCHANGED <<ring, dataSem, spaceSem, alive, rframe, rresult, writerVars,
                   metaVars, written, delivered, nDataSignals, nSpaceSignals>>
    /\ UNCHANGED progVars

\* Release: store the recomputed payload_free_bytes.
R_StoreFree ==
    /\ rpc = "rel2"
    /\ is_process_alive(ReaderPid)
    /\ oieb' = [oieb EXCEPT !.payload_free_bytes = rfree + ReleasedBytes(rframe)]
    /\ rfree' = 0
    /\ rframe' = NoFrame
    /\ rpc' = "relsig"
    /\ UNCHANGED <<ring, dataSem, spaceSem, alive, rresult, writerVars, metaVars,
                   histVars>>
    /\ UNCHANGED progVars

\* Release: signal the space semaphore; the loop goes round.
R_Signal ==
    /\ rpc = "relsig"
    /\ is_process_alive(ReaderPid)
    /\ spaceSem' = spaceSem + 1
    /\ nSpaceSignals' = nSpaceSignals + 1
    /\ rpc' = "loop"
    /\ UNCHANGED <<oieb, ring, dataSem, alive, rframe, rfree, rresult, writerVars, metaVars,
                   written, delivered, nReleased, nDataSignals>>
    /\ UNCHANGED progVars

\* ------------------------------------------------------------------ crashes
\* A process is terminated wherever it stands.
Crash(pid) ==
    /\ is_process_alive(pid)
    /\ alive' = alive \ {pid}
    /\ UNCHANGED <<oieb, ring, dataSem, spaceSem, writerVars, readerVars, metaVars,
                   histVars>>
    /\ UNCHANGED progVars

\* ----------------------------------------------------------- specification
\* The steps of write_frame after the call.
WriteFrameStep ==
    \/ W_Check
    \/ W_LoadFree
    \/ W_StoreFree
    \/ W_Signal
    \/ W_Wake
    \/ W_SpuriousWake
    \/ W_Timeout

WriterStep ==
    \/ \E n \in FrameLens : W_WriteFrame(n, MaxWrites)
    \/ WriteFrameStep
    \/ W_ReaderDead
    \/ \E n \in MetaLens : W_WriteMetadata(n)
    \/ W_MetaCommit

\* The steps of the consumer loop while the writer lives.
ReadFrameStep ==
    \/ R_ReadFrame
    \/ R_Wake
    \/ R_Timeout
    \/ R_Callback
    \/ R_Release
    \/ R_StoreFree
    \/ R_Signal

ReaderStep ==
    \/ ReadFrameStep
    \/ R_WriterDead

Next ==
    \/ WriterStep
    \/ ReaderStep
    \/ \E pid \in {WriterPid, ReaderPid} : Crash(pid)

Init == InitWith(PayloadSize)

Spec == Init /\ [][Next]_vars

\* Frames and crashes, no metadata.
FrameNext ==
    \/ \E n \in FrameLens : W_WriteFrame(n, MaxWrites)
    \/ WriteFrameStep
    \/ W_ReaderDead
    \/ ReaderStep
    \/ \E pid \in {WriterPid, ReaderPid} : Crash(pid)

\* The scheduler runs each live process: a write_frame call in progress
\* and the consumer loop eventually take their next step.  The application
\* is not obliged to call write_frame again.
FairSpec ==
    /\ Init
    /\ [][FrameNext]_vars
    /\ WF_vars(WriteFrameStep \/ W_ReaderDead)
    /\ WF_vars(ReaderStep)

\* Longer runs of frames alone: both processes live, no metadata.
DeepNext ==
    \/ \E n \in FrameLens : W_WriteFrame(n, MaxDeepWrites)
    \/ WriteFrameStep
    \/ ReadFrameStep

DeepInit == InitWith(DeepPayloadSize)

DeepSpec == DeepInit /\ [][DeepNext]_vars

\* --------------------------------------------------------- diagnostic tool
\* Values a field of a control block handed to the tool may hold.
FieldValues == 0..MaxField

\* sizeof(OIEB): the packed struct of oieb_reader.cpp:22-37.
SizeofOIEB == 4 + 4 + 8 * 11 + 8 * 4

\* oieb_size values handed to the tool: the right one and wrong ones.
OiebSizes == {0, OiebSize \div 2, OiebSize, OiebSize * 2}

\* The control blocks handed to the tool: any combination of field values,
\* consistent or not.
ToolBlocks ==
    { [InitOIEB(PayloadSize) EXCEPT
          !.oieb_size = sz,
          !.version = [major |-> f[1], minor |-> 0, patch |-> 0, reserved |-> 0],
          !.metadata_size = f[2],
          !.metadata_free_bytes = f[3],
          !.metadata_written_bytes = f[4],
          !.payload_size = f[5],
          !.payload_free_bytes = f[5],
          !.payload_write_pos = f[6],
          !.payload_read_pos = f[7],
          !.payload_written_count = f[8],
          !.payload_read_count = f[9]]
      : sz \in OiebSizes, f \in [1..9 -> FieldValues] }

\* Values of argc: no argument, one buffer name, one argument too many.
ToolArgcs == 1..3

\* A line main prints when cond holds.
Line(cond, tag) == IF cond THEN {tag} ELSE {}

\* Variant: the size test only rejects a field that is too large.
ToolErrors_SizeTooLarge(o) ==
    Line(o.oieb_size > 128, "size_mismatch")
    \cup Line(SizeofOIEB # 128, "struct_size")
    \cup Line(o.payload_size = 0, "payload_zero")
    \cup Line(o.metadata_size = 0, "metadata_zero")
    \cup Line(o.payload_write_pos >= o.payload_size, "write_pos")
    \cup Line(o.payload_read_pos >= o.payload_size, "read_pos")

\* The validation of main, lines 121-161: the ERROR lines it prints for the
\* block o; each of them clears valid.
ToolErrors(o) ==
    Line(o.oieb_size # 128, "size_mismatch")
    \cup Line(SizeofOIEB # 128, "struct_size")
    \cup Line(o.payload_size = 0, "payload_zero")
    \cup Line(o.metadata_size = 0, "metadata_zero")
    \cup Line(o.payload_write_pos >= o.payload_size, "write_pos")
    \cup Line(o.payload_read_pos >= o.payload_size, "read_pos")

\* The WARNING lines of the validation, lines 136-139: they leave valid alone.
ToolWarnings(o) == Line(o.version.major # 1, "version_warning")

\* main, lines 51-54: a wrong argument count prints the usage and returns 1.
T_Usage ==
    /\ tpc = "start"
    /\ targc # 2
    /\ tout' = tout \cup {"usage"}
    /\ texit' = 1
    /\ tpc' = "exit"
    /\ UNCHANGED <<targc, tfd, tmap, tvalid, otherThanTool>>

\* main, lines 56-65: shm_open; a failure prints an error and returns 1.
T_Open(ok) ==
    /\ tpc = "start"
    /\ targc = 2
    /\ IF ok
       THEN /\ tfd' = "open"
            /\ tpc' = "fstat"
            /\ UNCHANGED <<tout, texit>>
       ELSE /\ tout' = tout \cup {"open_error"}
            /\ texit' = 1
            /\ tpc' = "exit"
            /\ UNCHANGED tfd
    /\ UNCHANGED <<targc, tmap, tvalid, otherThanTool>>

\* main, lines 67-74: fstat; a failure closes the descriptor and returns 1.
T_Fstat(ok) ==
    /\ tpc = "fstat"
    /\ IF ok
       THEN /\ tpc' = "mmap"
            /\ UNCHANGED <<tfd, tout, texit>>
       ELSE /\ tout' = tout \cup {"size_error"}
            /\ tfd' = "closed"
            /\ texit' = 1
            /\ tpc' = "exit"
    /\ UNCHANGED <<targc, tmap, tvalid, otherThanTool>>

\* Variant: the mmap failure path returns without close(fd).
T_Mmap_NoClose(ok) ==
    /\ tpc = "mmap"
    /\ IF ok
       THEN /\ tmap' = "mapped"
            /\ tpc' = "validate"
            /\ UNCHANGED <<tfd, tout, texit>>
       ELSE /\ tout' = tout \cup {"map_error"}
            /\ texit' = 1
            /\ tpc' = "exit"
            /\ UNCHANGED <<tfd, tmap>>
    /\ UNCHANGED <<targc, tvalid, otherThanTool>>

\* main, lines 76-83: mmap; a failure closes the descriptor and returns 1.
T_Mmap(ok) ==
    /\ tpc = "mmap"
    /\ IF ok
       THEN /\ tmap' = "mapped"
            /\ tpc' = "validate"
            /\ UNCHANGED <<tfd, tout, texit>>
       ELSE /\ tout' = tout \cup {"map_error"}
            /\ tfd' = "closed"
            /\ texit' = 1
            /\ tpc' = "exit"
            /\ UNCHANGED tmap
    /\ UNCHANGED <<targc, tvalid, otherThanTool>>

\* main, lines 85-171: print the fields, validate them, print the verdict
\* and the hex dump.
T_Validate ==
    /\ tpc = "validate"
    /\ tvalid' = (ToolErrors(oieb) = {})
    /\ tout' = tout \cup {"fields"} \cup ToolErrors(oieb) \cup ToolWarnings(oieb)
                    \cup (IF ToolErrors(oieb) = {} THEN {"valid"} ELSE {"invalid"})
                    \cup {"hex_dump"}
    /\ tpc' = "cleanup"
    /\ UNCHANGED <<targc, tfd, tmap, texit, otherThanTool>>

\* Variant: a failed validation returns the I/O error code.
T_Cleanup_ExitOne ==
    /\ tpc = "cleanup"
    /\ tmap' = "unmapped"
    /\ tfd' = "closed"
    /\ texit' = IF tvalid THEN 0 ELSE 1
    /\ tpc' = "exit"
    /\ UNCHANGED <<targc, tvalid, tout, otherThanTool>>

\* main, lines 173-177: munmap, close, return valid ? 0 : 2.
T_Cleanup ==
    /\ tpc = "cleanup"
    /\ tmap' = "unmapped"
    /\ tfd' = "closed"
    /\ texit' = IF tvalid THEN 0 ELSE 2
    /\ tpc' = "exit"
    /\ UNCHANGED <<targc, tvalid, tout, otherThanTool>>

ToolNext ==
    \/ T_Usage
    \/ \E ok \in BOOLEAN : T_Open(ok)
    \/ \E ok \in BOOLEAN : T_Fstat(ok)
    \/ \E ok \in BOOLEAN : T_Mmap(ok)
    \/ T_Validate
    \/ T_Cleanup

\* One run of the tool on a control block nobody changes meanwhile.
ToolInit ==
    /\ oieb \in ToolBlocks
    /\ RingIdle(PayloadSize)
    /\ targc \in ToolArgcs
    /\ ToolIdle
    /\ cprotocol = ProtocolShm
    /\ ClientIdle
    /\ pparts = <<>>
    /\ ParseIdle
    /\ CapsUnused
    /\ OthersUnused({"tool", "client", "parse", "caps"})

ToolSpec == ToolInit /\ [][ToolNext]_vars

\* ------------------------------------------------------------------ client
\* What read_frame hands the loop of process_shared_memory: a valid frame,
\* an invalid one after a timeout, WriterDeadException, or another
\* exception of the reader (a corrupt frame).
ReadResults == {"Frame", "Timeout", "WriterDead", "Corruption"}

\* Every step of the client below is a step of a live process: none is
\* taken once std::terminate has ended it (terminated, set only by the
\* second caller of start() further down).

\* The processing thread function returns: the thread can be joined.
ThreadReturns ==
    /\ cpc' = "idle"
    /\ processing_thread_' = "finished"

\* on_frame(callback), lines 113-118.
C_OnFrame(cb) ==
    /\ ~terminated
    /\ ucall = "none"
    /\ ulast # "dtor"
    /\ IF cb = "none"
       THEN /\ uthrown' = "invalid_argument"
            /\ UNCHANGED frame_callback_
       ELSE /\ frame_callback_' = cb
            /\ uthrown' = "none"
    /\ ulast' = "on_frame"
    /\ UNCHANGED <<cprotocol, running_, stop_requested_, processing_thread_,
                   reader_, writer_, video_format_, cpc, ucall, ccaught>>
    /\ UNCHANGED <<cframe, nafter>>
    /\ UNCHANGED otherThanClient

\* start() as it would be if the branch for an unsupported protocol did not
\* clear running_ before it throws.
C_Start_KeepsRunning ==
    /\ ~terminated
    /\ ucall = "none"
    /\ ulast # "dtor"
    /\ ulast' = "start"
    /\ IF running_
       THEN /\ uthrown' = "none"
            /\ UNCHANGED <<running_, stop_requested_, processing_thread_, cpc, nafter>>
       ELSE IF frame_callback_ = "none"
       THEN /\ uthrown' = "runtime_error"
            /\ UNCHANGED <<running_, stop_requested_, processing_thread_, cpc, nafter>>
       ELSE IF cprotocol = ProtocolShm
       THEN /\ running_' = TRUE
            /\ stop_requested_' = FALSE
            /\ processing_thread_' = "running"
            /\ cpc' = "create"
            /\ nafter' = 0
            /\ uthrown' = "none"
       ELSE IF cprotocol \in {ProtocolOr(ProtocolMjpeg, ProtocolHttp),
                              ProtocolOr(ProtocolMjpeg, ProtocolTcp)}
       THEN /\ running_' = TRUE
            /\ stop_requested_' = FALSE
            /\ processing_thread_' = "running"
            /\ cpc' = "mopen"
            /\ nafter' = 0
            /\ uthrown' = "none"
       ELSE /\ running_' = TRUE
            /\ stop_requested_' = FALSE
            /\ uthrown' = "runtime_error"
            /\ UNCHANGED <<processing_thread_, cpc, nafter>>
    /\ UNCHANGED <<cprotocol, frame_callback_, reader_, writer_, video_format_,
                   ucall, ccaught>>
    /\ UNCHANGED cframe
    /\ UNCHANGED otherThanClient

\* start(), lines 120-143.
C_Start ==
    /\ ~terminated
    /\ ucall = "none"
    /\ ulast # "dtor"
    /\ ulast' = "start"
    /\ IF running_
       THEN /\ uthrown' = "none"
            /\ UNCHANGED <<running_, stop_requested_, processing_thread_, cpc, nafter>>
       ELSE IF frame_callback_ = "none"
       THEN /\ uthrown' = "runtime_error"
            /\ UNCHANGED <<running_, stop_requested_, processing_thread_, cpc, nafter>>
       ELSE IF cprotocol = ProtocolShm
       THEN /\ running_' = TRUE
            /\ stop_requested_' = FALSE
            /\ processing_thread_' = "running"
            /\ cpc' = "create"
            /\ nafter' = 0
            /\ uthrown' = "none"
       ELSE IF cprotocol \in {ProtocolOr(ProtocolMjpeg, ProtocolHttp),
                              ProtocolOr(ProtocolMjpeg, ProtocolTcp)}
       THEN /\ running_' = TRUE
            /\ stop_requested_' = FALSE
            /\ processing_thread_' = "running"
            /\ cpc' = "mopen"
            /\ nafter' = 0
            /\ uthrown' = "none"
       ELSE /\ running_' = FALSE
            /\ stop_requested_' = FALSE
            /\ uthrown' = "runtime_error"
            /\ UNCHANGED <<processing_thread_, cpc, nafter>>
    /\ UNCHANGED <<cprotocol, frame_callback_, reader_, writer_, video_format_,
                   ucall, ccaught>>
    /\ UNCHANGED cframe
    /\ UNCHANGED otherThanClient

\* stop() or the destructor (which calls stop()), lines 76-78 and 145-150:
\* a client that is not running returns at once, otherwise the stop is
\* requested and the caller goes on to join.
C_StopBegin(call) ==
    /\ ~terminated
    /\ ucall = "none"
    /\ ulast # "dtor"
    /\ IF ~running_
       THEN /\ ulast' = call
            /\ uthrown' = "none"
            /\ UNCHANGED <<ucall, stop_requested_>>
       ELSE /\ stop_requested_' = TRUE
            /\ ucall' = call
            /\ UNCHANGED <<ulast, uthrown>>
    /\ UNCHANGED <<cprotocol, frame_callback_, running_, processing_thread_,
                   reader_, writer_, video_format_, cpc, ccaught>>
    /\ UNCHANGED <<cframe, nafter>>
    /\ UNCHANGED otherThanClient

\* stop() as it would be without the reset of the reader at line 156.
C_StopFinish_KeepsReader ==
    /\ ~terminated
    /\ ucall \in {"stop", "dtor"}
    /\ processing_thread_ \in {"finished", "joined"}
    /\ processing_thread_' = "joined"
    /\ reader_' = reader_
    /\ writer_' = "empty"
    /\ running_' = FALSE
    /\ ulast' = ucall
    /\ uthrown' = "none"
    /\ ucall' = "none"
    /\ UNCHANGED <<cprotocol, frame_callback_, stop_requested_, video_format_,
                   cpc, ccaught>>
    /\ UNCHANGED <<cframe, nafter>>
    /\ UNCHANGED otherThanClient

\* stop() as it would be if it also reset the cached video format.
C_StopFinish_ClearsFormat ==
    /\ ~terminated
    /\ ucall \in {"stop", "dtor"}
    /\ processing_thread_ \in {"finished", "joined"}
    /\ processing_thread_' = "joined"
    /\ reader_' = "empty"
    /\ writer_' = "empty"
    /\ running_' = FALSE
    /\ ulast' = ucall
    /\ uthrown' = "none"
    /\ ucall' = "none"
    /\ video_format_' = FALSE
    /\ UNCHANGED <<cprotocol, frame_callback_, stop_requested_,
                   cpc, ccaught>>
    /\ UNCHANGED <<cframe, nafter>>
    /\ UNCHANGED otherThanClient

\* stop(), lines 152-160: join returns once the thread function has
\* returned; then the handles are reset and running_ is cleared.
C_StopFinish ==
    /\ ~terminated
    /\ ucall \in {"stop", "dtor"}
    /\ processing_thread_ \in {"finished", "joined"}
    /\ processing_thread_' = "joined"
    /\ reader_' = "empty"
    /\ writer_' = "empty"
    /\ running_' = FALSE
    /\ ulast' = ucall
    /\ uthrown' = "none"
    /\ ucall' = "none"
    /\ UNCHANGED <<cprotocol, frame_callback_, stop_requested_, video_format_,
                   cpc, ccaught>>
    /\ UNCHANGED <<cframe, nafter>>
    /\ UNCHANGED otherThanClient

\* process_shared_memory, lines 163-173 and 212-214: create the reader; an
\* exception of the constructor ends the thread function in the outer catch.
P_CreateReader(ok) ==
    /\ ~terminated
    /\ cpc = "create"
    /\ IF ok
       THEN /\ reader_' = "held"
            /\ cpc' = "loop"
            /\ UNCHANGED <<processing_thread_, ccaught>>
       ELSE /\ ccaught' = ccaught \cup {"CreateFailed"}
            /\ ThreadReturns
            /\ UNCHANGED reader_
    /\ UNCHANGED <<cprotocol, frame_callback_, running_, stop_requested_, writer_,
                   video_format_, ucall, ulast, uthrown>>
    /\ UNCHANGED <<cframe, nafter>>
    /\ UNCHANGED otherThanClient

\* The loop test as it would be if it did not read stop_requested_.
P_LoopTest_IgnoresStop ==
    /\ ~terminated
    /\ cpc = "loop"
    /\ IF FALSE
       THEN ThreadReturns
       ELSE cpc' = "read" /\ UNCHANGED processing_thread_
    /\ UNCHANGED <<cprotocol, frame_callback_, running_, stop_requested_, reader_,
                   writer_, video_format_, ucall, ulast, uthrown, ccaught>>
    /\ UNCHANGED <<cframe, nafter>>
    /\ UNCHANGED otherThanClient

\* process_shared_memory, line 180: the loop test.
P_LoopTest ==
    /\ ~terminated
    /\ cpc = "loop"
    /\ IF stop_requested_
       THEN ThreadReturns
       ELSE cpc' = "read" /\ UNCHANGED processing_thread_
    /\ UNCHANGED <<cprotocol, frame_callback_, running_, stop_requested_, reader_,
                   writer_, video_format_, ucall, ulast, uthrown, ccaught>>
    /\ UNCHANGED <<cframe, nafter>>
    /\ UNCHANGED otherThanClient

\* process_shared_memory, lines 183-187 and 204-210: read_frame and what
\* the loop does with its outcome.
P_ReadFrame(res) ==
    /\ ~terminated
    /\ cpc = "read"
    /\ IF res = "Frame"
       THEN /\ cpc' = "got"
            /\ cframe' = "held"
            /\ UNCHANGED <<processing_thread_, ccaught>>
       ELSE IF res = "Timeout"
       THEN /\ cpc' = "loop"
            /\ UNCHANGED <<processing_thread_, ccaught, cframe>>
       ELSE IF res = "WriterDead"
       THEN /\ ccaught' = ccaught \cup {res}
            /\ ThreadReturns
            /\ UNCHANGED cframe
       ELSE /\ ccaught' = ccaught \cup {res}
            /\ cpc' = "loop"
            /\ UNCHANGED <<processing_thread_, cframe>>
    /\ UNCHANGED <<cprotocol, frame_callback_, running_, stop_requested_, reader_,
                   writer_, video_format_, ucall, ulast, uthrown, nafter>>
    /\ UNCHANGED otherThanClient

\* The format test as it would be if the frame outlived the throw at line 195.
P_Format_KeepsFrame(parsed) ==
    /\ ~terminated
    /\ cpc = "got"
    /\ parsed => ~video_format_
    /\ video_format_' = (video_format_ \/ parsed)
    /\ IF video_format_'
       THEN /\ cpc' = "callback"
            /\ nafter' = IF stop_requested_ THEN nafter + 1 ELSE nafter
            /\ UNCHANGED <<ccaught, cframe>>
       ELSE /\ ccaught' = ccaught \cup {"NoFormat"}
            /\ cframe' = cframe
            /\ cpc' = "loop"
            /\ UNCHANGED nafter
    /\ UNCHANGED <<cprotocol, frame_callback_, running_, stop_requested_,
                   processing_thread_, reader_, writer_, ucall, ulast, uthrown>>
    /\ UNCHANGED otherThanClient

\* process_shared_memory, lines 189-202: with no format yet parse the
\* metadata (parse_metadata runs, and can yield a format, only then); still
\* without one, throw, which ends the scope of the frame and which the loop
\* catches (207-210); with one, call the callback.
P_Format(parsed) ==
    /\ ~terminated
    /\ cpc = "got"
    /\ parsed => ~video_format_
    /\ video_format_' = (video_format_ \/ parsed)
    /\ IF video_format_'
       THEN /\ cpc' = "callback"
            /\ nafter' = IF stop_requested_ THEN nafter + 1 ELSE nafter
            /\ UNCHANGED <<ccaught, cframe>>
       ELSE /\ ccaught' = ccaught \cup {"NoFormat"}
            /\ cframe' = "none"
            /\ cpc' = "loop"
            /\ UNCHANGED nafter
    /\ UNCHANGED <<cprotocol, frame_callback_, running_, stop_requested_,
                   processing_thread_, reader_, writer_, ucall, ulast, uthrown>>
    /\ UNCHANGED otherThanClient

\* process_shared_memory, lines 198-203: the callback returns and the frame
\* leaves its scope.
P_Callback ==
    /\ ~terminated
    /\ cpc = "callback"
    /\ cpc' = "loop"
    /\ cframe' = "none"
    /\ UNCHANGED <<cprotocol, frame_callback_, running_, stop_requested_,
                   processing_thread_, reader_, writer_, video_format_, ucall,
                   ulast, uthrown, ccaught, nafter>>
    /\ UNCHANGED otherThanClient

\* The callback calls stop() on its own client (lines 145-154): the stop is
\* requested, join on the calling thread itself throws system_error, which
\* leaves stop() and the callback and is caught by the loop (207-210).
P_CallbackStops ==
    /\ ~terminated
    /\ cpc = "callback"
    /\ running_
    /\ stop_requested_' = TRUE
    /\ ccaught' = ccaught \cup {"system_error"}
    /\ cpc' = "loop"
    /\ cframe' = "none"
    /\ UNCHANGED <<cprotocol, frame_callback_, running_, processing_thread_,
                   reader_, writer_, video_format_, ucall, ulast, uthrown, nafter>>
    /\ UNCHANGED otherThanClient

\* process_mjpeg_stream, lines 298-304 and 317-319: open the capture; a
\* stream that does not open throws, and the catch ends the thread function.
P_MjpegOpen(ok) ==
    /\ ~terminated
    /\ cpc = "mopen"
    /\ IF ok
       THEN /\ cpc' = "mloop"
            /\ UNCHANGED <<processing_thread_, ccaught>>
       ELSE /\ ccaught' = ccaught \cup {"OpenFailed"}
            /\ ThreadReturns
    /\ UNCHANGED <<cprotocol, frame_callback_, running_, stop_requested_, reader_,
                   writer_, video_format_, ucall, ulast, uthrown>>
    /\ UNCHANGED <<cframe, nafter>>
    /\ UNCHANGED otherThanClient

\* process_mjpeg_stream, lines 308 and 316: the loop test.
P_MjpegLoop ==
    /\ ~terminated
    /\ cpc = "mloop"
    /\ IF stop_requested_
       THEN ThreadReturns
       ELSE cpc' = "mread" /\ UNCHANGED processing_thread_
    /\ UNCHANGED <<cprotocol, frame_callback_, running_, stop_requested_, reader_,
                   writer_, video_format_, ucall, ulast, uthrown, ccaught>>
    /\ UNCHANGED <<cframe, nafter>>
    /\ UNCHANGED otherThanClient

\* process_mjpeg_stream, lines 309-313: a read, and either the callback or
\* a pause.
P_MjpegRead(got) ==
    /\ ~terminated
    /\ cpc = "mread"
    /\ IF got
       THEN /\ cpc' = "mcallback"
            /\ nafter' = IF stop_requested_ THEN nafter + 1 ELSE nafter
       ELSE /\ cpc' = "mloop"
            /\ UNCHANGED nafter
    /\ UNCHANGED <<cprotocol, frame_callback_, running_, stop_requested_,
                   processing_thread_, reader_, writer_, video_format_, ucall,
                   ulast, uthrown, ccaught, cframe>>
    /\ UNCHANGED otherThanClient

\* process_mjpeg_stream, line 310: the callback returns.
P_MjpegCallback ==
    /\ ~terminated
    /\ cpc = "mcallback"
    /\ cpc' = "mloop"
    /\ UNCHANGED <<cprotocol, frame_callback_, running_, stop_requested_,
                   processing_thread_, reader_, writer_, video_format_, ucall,
                   ulast, uthrown, ccaught>>
    /\ UNCHANGED <<cframe, nafter>>
    /\ UNCHANGED otherThanClient

\* The calls of the thread that owns the client.
ClientCalls ==
    \/ \E cb \in {"none", "set"} : C_OnFrame(cb)
    \/ C_Start
    \/ \E call \in {"stop", "dtor"} : C_StopBegin(call)
    \/ C_StopFinish

\* The steps of the processing thread.
ProcessingStep ==
    \/ \E ok \in BOOLEAN : P_CreateReader(ok)
    \/ P_LoopTest
    \/ \E res \in ReadResults : P_ReadFrame(res)
    \/ \E parsed \in BOOLEAN : P_Format(parsed)
    \/ P_Callback
    \/ P_CallbackStops
    \/ \E ok \in BOOLEAN : P_MjpegOpen(ok)
    \/ P_MjpegLoop
    \/ \E got \in BOOLEAN : P_MjpegRead(got)
    \/ P_MjpegCallback

ClientNext == ClientCalls \/ ProcessingStep

\* A client constructed from a connection string of any protocol.
ClientInit ==
    /\ oieb = InitOIEB(PayloadSize)
    /\ RingIdle(PayloadSize)
    /\ targc = 2
    /\ ToolIdle
    /\ cprotocol \in Protocols
    /\ ClientIdle
    /\ pparts = <<>>
    /\ ParseIdle
    /\ CapsUnused
    /\ OthersUnused({"tool", "client", "parse", "caps"})

ClientSpec == ClientInit /\ [][ClientNext]_vars

\* The scheduler runs the processing thread, every read_frame call returns
\* within its timeout and every callback returns, and a join returns once
\* the thread function has returned.  The owner of the client is not obliged
\* to make any call.
FairClientSpec ==
    /\ ClientInit
    /\ [][ClientNext]_vars
    /\ WF_vars(ProcessingStep)
    /\ WF_vars(C_StopFinish)

\* -------------------------------------------------- tool and client together
\* One run of the tool and one client, independent of each other.  The tool
\* is handed a consistent block or one with a wrong oieb_size.
CleanupInit ==
    /\ oieb \in {InitOIEB(PayloadSize),
                 [InitOIEB(PayloadSize) EXCEPT !.oieb_size = OiebSize \div 2]}
    /\ RingIdle(PayloadSize)
    /\ targc \in ToolArgcs
    /\ ToolIdle
    /\ cprotocol \in Protocols
    /\ ClientIdle
    /\ pparts = <<>>
    /\ ParseIdle
    /\ CapsUnused
    /\ OthersUnused({"tool", "client", "parse", "caps"})

CleanupNext == ToolNext \/ ClientNext

CleanupSpec == CleanupInit /\ [][CleanupNext]_vars

\* -------------------------------------------------------- connection string
\* A string is a sequence of characters; positions count from 0 as in
\* std::string_view.

\* std::string_view::npos: larger than every position.
Npos == -1

\* std::min on two positions.
MinPos(a, b) ==
    IF a = Npos THEN b ELSE IF b = Npos THEN a ELSE IF a < b THEN a ELSE b

\* s.find(pat): the first position where pat occurs, or npos.
Find(s, pat) ==
    LET At(i) == SubSeq(s, i + 1, i + Len(pat)) = pat
        hits == {i \in 0..(Len(s) - Len(pat)) : At(i)}
    IN  IF hits = {} THEN Npos
        ELSE CHOOSE i \in hits : \A j \in hits : i <= j

\* s.substr(0, n), n possibly npos.
Prefix(s, n) == IF n = Npos \/ n >= Len(s) THEN s ELSE SubSeq(s, 1, n)

\* s.substr(n) and remove_prefix(n).
DropPrefix(s, n) == SubSeq(s, n + 1, Len(s))

\* The decimal digits and the value of each.
Digits == <<"0", "1", "2", "3", "4", "5", "6", "7", "8", "9">>

DigitValue(c) == (CHOOSE i \in 1..10 : Digits[i] = c) - 1

IsDigit(c) == \E i \in 1..10 : Digits[i] = c

\* Whether a text is one or more decimal digits.
IsNumber(text) == text # <<>> /\ \A i \in 1..Len(text) : IsDigit(text[i])

\* The leading digits of s.
RECURSIVE LeadingDigits(_)
LeadingDigits(s) ==
    IF s = <<>> \/ ~IsDigit(Head(s)) THEN <<>>
    ELSE <<Head(s)>> \o LeadingDigits(Tail(s))

RECURSIVE DecimalValue(_)
DecimalValue(ds) ==
    IF ds = <<>> THEN 0
    ELSE 10 * DecimalValue(SubSeq(ds, 1, Len(ds) - 1)) + DigitValue(ds[Len(ds)])

\* std::stoi / std::stoull on a string of digits and other characters (no
\* sign, no blank): the value of the leading digits; without a leading
\* digit the call throws invalid_argument.
StringToNumber(s) ==
    IF LeadingDigits(s) = <<>>
    THEN [thrown |-> "invalid_argument", value |-> 0]
    ELSE [thrown |-> "none", value |-> DecimalValue(LeadingDigits(s))]

\* static_cast<uint16_t>.
ToUint16(n) == n % 65536

\* A default-constructed ConnectionString (lines 37-45); an optional is a
\* sequence of at most one value.
DefaultConnection ==
    [ protocol      |-> ProtocolNone,
      host          |-> <<>>,
      port          |-> <<>>,
      path          |-> <<>>,
      buffer_name   |-> <<>>,
      buffer_size   |-> DefaultBufferSize,
      metadata_size |-> DefaultMetadataSize,
      mode          |-> <<"o", "n", "e", "w", "a", "y">> ]

\* Outcome of a call: a value, or the exception thrown.
Returned(v) == [state |-> "returned", thrown |-> "none", value |-> v]

Threw(e) == [state |-> "threw", thrown |-> e, value |-> DefaultConnection]

\* extract_scheme, lines 177-185: the text before "://" and the rest.
ExtractScheme(url) ==
    LET pos == Find(url, <<":", "/", "/">>)
    IN  IF pos = Npos
        THEN [thrown |-> "invalid_argument", out |-> <<>>, rest |-> url]
        ELSE [thrown |-> "none", out |-> Prefix(url, pos),
              rest |-> DropPrefix(url, pos + 3)]

\* extract_authority, lines 187-199.
ExtractAuthority(url) ==
    LET end_pos == MinPos(Find(url, <<"/">>), Find(url, <<"?">>))
    IN  [out |-> Prefix(url, end_pos),
         rest |-> IF end_pos # Npos THEN DropPrefix(url, end_pos) ELSE <<>>]

\* extract_path, lines 201-215.
ExtractPath(url) ==
    IF url = <<>> \/ url[1] # "/"
    THEN [out |-> <<>>, rest |-> url]
    ELSE LET question_pos == Find(url, <<"?">>)
         IN  [out |-> Prefix(url, question_pos),
              rest |-> IF question_pos # Npos THEN DropPrefix(url, question_pos)
                       ELSE <<>>]

\* extract_query, lines 217-223.
ExtractQuery(url) ==
    IF url = <<>> \/ url[1] # "?" THEN <<>> ELSE DropPrefix(url, 1)

\* Variant: an unknown scheme yields Protocol::None instead of throwing.
ParseProtocol_NoThrow(scheme) ==
    IF scheme = <<"s", "h", "m">> THEN [thrown |-> "none", value |-> ProtocolShm]
    ELSE IF scheme = <<"m", "j", "p", "e", "g", "+", "h", "t", "t", "p">>
    THEN [thrown |-> "none", value |-> ProtocolOr(ProtocolMjpeg, ProtocolHttp)]
    ELSE IF scheme = <<"m", "j", "p", "e", "g", "+", "t", "c", "p">>
    THEN [thrown |-> "none", value |-> ProtocolOr(ProtocolMjpeg, ProtocolTcp)]
    ELSE IF scheme = <<"h", "t", "t", "p">> THEN [thrown |-> "none", value |-> ProtocolHttp]
    ELSE IF scheme = <<"t", "c", "p">> THEN [thrown |-> "none", value |-> ProtocolTcp]
    ELSE [thrown |-> "none", value |-> ProtocolNone]

\* parse_protocol, lines 225-239.
ParseProtocol(scheme) ==
    IF scheme = <<"s", "h", "m">> THEN [thrown |-> "none", value |-> ProtocolShm]
    ELSE IF scheme = <<"m", "j", "p", "e", "g", "+", "h", "t", "t", "p">>
    THEN [thrown |-> "none", value |-> ProtocolOr(ProtocolMjpeg, ProtocolHttp)]
    ELSE IF scheme = <<"m", "j", "p", "e", "g", "+", "t", "c", "p">>
    THEN [thrown |-> "none", value |-> ProtocolOr(ProtocolMjpeg, ProtocolTcp)]
    ELSE IF scheme = <<"h", "t", "t", "p">> THEN [thrown |-> "none", value |-> ProtocolHttp]
    ELSE IF scheme = <<"t", "c", "p">> THEN [thrown |-> "none", value |-> ProtocolTcp]
    ELSE [thrown |-> "invalid_argument", value |-> ProtocolNone]

\* A path without its leading slash (lines 80-82, 103-105).
StripSlash(path) ==
    IF path # <<>> /\ path[1] = "/" THEN DropPrefix(path, 1) ELSE path

\* parse, lines 73-84: for shm the authority, or else the path, is the
\* buffer name.  Yields the connection and the url left to parse.
ParseShm(result, url) ==
    LET authority == ExtractAuthority(url)
        path == ExtractPath(authority.rest)
        name == StripSlash(path.out)
    IN  IF authority.out # <<>>
        THEN [thrown |-> "none",
              value |-> [result EXCEPT !.buffer_name = <<authority.out>>],
              rest |-> authority.rest]
        ELSE [thrown |-> "none",
              value |-> [result EXCEPT !.buffer_name =
                            <<IF name = <<>> THEN <<"d", "e", "f", "a", "u", "l", "t">> ELSE name>>],
              rest |-> path.rest]

\* parse, lines 85-109: host, port and path of a network protocol.
ParseNetwork(result, url) ==
    LET authority == ExtractAuthority(url)
        colon_pos == Find(authority.out, <<":">>)
        port_str == DropPrefix(authority.out, colon_pos + 1)
        port == StringToNumber(port_str)
        path == ExtractPath(authority.rest)
        stripped == StripSlash(path.out)
        withHost ==
            IF colon_pos # Npos
            THEN [result EXCEPT
                    !.host = <<Prefix(authority.out, colon_pos)>>,
                    !.port = IF port_str # <<>> THEN <<ToUint16(port.value)>>
                             ELSE <<>>]
            ELSE [result EXCEPT !.host = <<authority.out>>]
    IN  IF colon_pos # Npos /\ port_str # <<>> /\ port.thrown # "none"
        THEN [thrown |-> port.thrown, value |-> result, rest |-> url]
        ELSE [thrown |-> "none",
              value |-> IF stripped # <<>>
                        THEN [withHost EXCEPT !.path = <<stripped>>]
                        ELSE withHost,
              rest |-> path.rest]

\* parse, lines 117-129: one parameter of the query.
ApplyParam(result, param) ==
    LET eq_pos == Find(param, <<"=">>)
        key == Prefix(param, eq_pos)
        value == DropPrefix(param, eq_pos + 1)
        number == StringToNumber(value)
    IN  IF eq_pos = Npos THEN [thrown |-> "none", value |-> result]
        ELSE IF key = <<"b", "u", "f", "f", "e", "r", "_", "s", "i", "z", "e">>
        THEN [thrown |-> number.thrown,
              value |-> [result EXCEPT !.buffer_size = number.value]]
        ELSE IF key = <<"m", "e", "t", "a", "d", "a", "t", "a", "_", "s", "i", "z", "e">>
        THEN [thrown |-> number.thrown,
              value |-> [result EXCEPT !.metadata_size = number.value]]
        ELSE IF key = <<"m", "o", "d", "e">>
        THEN [thrown |-> "none", value |-> [result EXCEPT !.mode = value]]
        ELSE [thrown |-> "none", value |-> result]

\* parse, lines 111-135: the loop over the parameters of the query.
RECURSIVE ApplyQuery(_, _)
ApplyQuery(result, query) ==
    IF query = <<>> THEN [thrown |-> "none", value |-> result]
    ELSE LET amp_pos == Find(query, <<"&">>)
             applied == ApplyParam(result, Prefix(query, amp_pos))
         IN  IF applied.thrown # "none" THEN applied
             ELSE IF amp_pos = Npos THEN applied
             ELSE ApplyQuery(applied.value, DropPrefix(query, amp_pos + 1))

\* ConnectionString::parse, lines 60-138.
Parse(connection_str) ==
    IF connection_str = <<>> THEN Threw("invalid_argument")
    ELSE
    LET scheme == ExtractScheme(connection_str)
        protocol == ParseProtocol(scheme.out)
        result == [DefaultConnection EXCEPT !.protocol = protocol.value]
        body == IF protocol.value = ProtocolShm
                THEN ParseShm(result, scheme.rest)
                ELSE ParseNetwork(result, scheme.rest)
        query == ApplyQuery(body.value, ExtractQuery(body.rest))
    IN  IF scheme.thrown # "none" THEN Threw(scheme.thrown)
        ELSE IF protocol.thrown # "none" THEN Threw(protocol.thrown)
        ELSE IF body.thrown # "none" THEN Threw(body.thrown)
        ELSE IF query.thrown # "none" THEN Threw(query.thrown)
        ELSE Returned(query.value)

\* ConnectionString::try_parse, lines 140-146: an optional, here a sequence
\* of at most one connection.
TryParse(connection_str) ==
    LET outcome == Parse(connection_str)
    IN  IF outcome.state = "threw" THEN <<>> ELSE <<outcome.value>>

\* ------------------------------------------- connection strings handed over
\* A parameter of a query: key=value, or a bare key.
Param(key, eq, value) == [key |-> key, eq |-> eq, value |-> value]

Params ==
    { Param(<<"b", "u", "f", "f", "e", "r", "_", "s", "i", "z", "e">>, TRUE, <<"1">>), Param(<<"b", "u", "f", "f", "e", "r", "_", "s", "i", "z", "e">>, TRUE, <<"2", "0">>),
      Param(<<"m", "e", "t", "a", "d", "a", "t", "a", "_", "s", "i", "z", "e">>, TRUE, <<"3">>), Param(<<"m", "o", "d", "e">>, TRUE, <<"d", "u", "p", "l", "e", "x">>),
      Param(<<"m", "o", "d", "e">>, TRUE, <<>>), Param(<<"o", "t", "h", "e", "r">>, TRUE, <<"1">>),
      Param(<<"f", "l", "a", "g">>, FALSE, <<>>), Param(<<"b", "u", "f", "f", "e", "r", "_", "s", "i", "z", "e">>, TRUE, <<"x">>) }

\* Queries of at most n parameters.
Queries(n) == UNION {[1..k -> Params] : k \in 0..n}

\* The pieces of a connection string scheme://host[:port][path][?query];
\* for shm the host piece is the buffer name.  port and path are optionals.
Url(scheme, host, port, path, params) ==
    [scheme |-> scheme, sep |-> TRUE, host |-> host, port |-> port,
     path |-> path, params |-> params]

\* A text without "://".
Raw(text) ==
    [scheme |-> text, sep |-> FALSE, host |-> <<>>, port |-> <<>>,
     path |-> <<>>, params |-> <<>>]

ShmNames == {<<>>, <<"a">>, <<"a", "b">>, <<"a", "/", "b">>}

NetworkSchemes == {<<"m", "j", "p", "e", "g", "+", "h", "t", "t", "p">>, <<"m", "j", "p", "e", "g", "+", "t", "c", "p">>, <<"h", "t", "t", "p">>, <<"t", "c", "p">>}

Hosts == {<<>>, <<"h">>, <<"1", ".", "2">>}

Ports == {<<>>, <<<<>>>>, <<<<"8", "0">>>>, <<<<"8", "0", "8", "0">>>>, <<<<"6", "5", "5", "3", "5">>>>, <<<<"6", "5", "5", "3", "6">>>>, <<<<"x">>>>}

Paths == {<<>>, <<<<"/">>>>, <<<<"/", "s">>>>, <<<<"/", "s", "/", "t">>>>}

\* The connection strings of a run, by their pieces.
ConnectionInputs ==
    {Url(<<"s", "h", "m">>, name, <<>>, <<>>, query) :
        name \in ShmNames, query \in Queries(MaxParams)}
    \cup {Url(scheme, host, port, path, query) :
            scheme \in NetworkSchemes, host \in Hosts, port \in Ports,
            path \in Paths, query \in Queries(1)}
    \cup {Url(scheme, <<"h">>, <<>>, <<>>, <<>>) : scheme \in {<<"f", "t", "p">>, <<>>, <<"S", "H", "M">>}}
    \cup {Raw(text) : text \in {<<>>, <<"s", "h", "m">>, <<"s", "h", "m", ":", "/", "a">>, <<"a", "?", "b">>}}

ParamText(param) ==
    param.key \o (IF param.eq THEN <<"=">> \o param.value ELSE <<>>)

RECURSIVE QueryText(_)
QueryText(params) ==
    IF params = <<>> THEN <<>>
    ELSE IF Len(params) = 1 THEN ParamText(params[1])
    ELSE ParamText(params[1]) \o <<"&">> \o QueryText(Tail(params))

\* The text of a connection string given by its pieces.
ConnectionText(parts) ==
    IF ~parts.sep THEN parts.scheme
    ELSE parts.scheme \o <<":", "/", "/">> \o parts.host
         \o (IF parts.port # <<>> THEN <<":">> \o parts.port[1] ELSE <<>>)
         \o (IF parts.path # <<>> THEN parts.path[1] ELSE <<>>)
         \o (IF parts.params # <<>> THEN <<"?">> \o QueryText(parts.params) ELSE <<>>)

\* A caller parses the string with parse (which may throw).
CS_Parse ==
    /\ "parse" \notin pcalls
    /\ poutcome' = Parse(ConnectionText(pparts))
    /\ pcalls' = pcalls \cup {"parse"}
    /\ UNCHANGED <<pparts, ptry>>
    /\ UNCHANGED otherThanParse

\* A caller parses the string with try_parse.
CS_TryParse ==
    /\ "try_parse" \notin pcalls
    /\ ptry' = TryParse(ConnectionText(pparts))
    /\ pcalls' = pcalls \cup {"try_parse"}
    /\ UNCHANGED <<pparts, poutcome>>
    /\ UNCHANGED otherThanParse

ParseNext == CS_Parse \/ CS_TryParse

ParseInit ==
    /\ oieb = InitOIEB(PayloadSize)
    /\ RingIdle(PayloadSize)
    /\ targc = 2
    /\ ToolIdle
    /\ cprotocol = ProtocolShm
    /\ ClientIdle
    /\ pparts \in ConnectionInputs
    /\ ParseIdle
    /\ CapsUnused
    /\ OthersUnused({"tool", "client", "parse", "caps"})

ParseSpec == ParseInit /\ [][ParseNext]_vars

\* ------------------------------------------------------------------ GstCaps
\* src/cpp/include/rocket-welder/gst_caps.hpp.  Texts are sequences of
\* characters, as for connection strings.

\* s.starts_with(prefix).
StartsWith(s, prefix) ==
    Len(s) >= Len(prefix) /\ SubSeq(s, 1, Len(prefix)) = prefix

Blanks == {" ", "\t"}

\* key.erase(0, key.find_first_not_of(" \t")) and
\* key.erase(key.find_last_not_of(" \t") + 1), lines 68-71.
Trim(s) ==
    LET inner == {i \in 1..Len(s) : s[i] \notin Blanks}
    IN  IF inner = {} THEN <<>>
        ELSE SubSeq(s, CHOOSE i \in inner : \A j \in inner : i <= j,
                       CHOOSE i \in inner : \A j \in inner : i >= j)

\* remove_type_annotation, lines 208-221.
RemoveTypeAnnotation(value) ==
    IF StartsWith(value, <<"(", "i", "n", "t", ")">>) THEN DropPrefix(value, 5)
    ELSE IF StartsWith(value, <<"(", "s", "t", "r", "i", "n", "g", ")">>) THEN DropPrefix(value, 8)
    ELSE IF StartsWith(value, <<"(", "f", "r", "a", "c", "t", "i", "o", "n", ")">>) THEN DropPrefix(value, 10)
    ELSE value

\* std::regex_search with "([^=,]+)=([^,]+)", lines 56-65 and 95: the
\* leftmost match is at the first '=' that follows a character other than
\* '=' and ',' and is followed by a character other than ','; the key is the
\* run of such characters before it, the value the run up to the next ','.
RegexSearch(s) ==
    LET Separator(i) == s[i] = "=" \/ s[i] = ","
        hits == {e \in 2..(Len(s) - 1) :
                    s[e] = "=" /\ ~Separator(e - 1) /\ s[e + 1] # ","}
    IN  IF hits = {} THEN [found |-> FALSE, key |-> <<>>, value |-> <<>>, suffix |-> <<>>]
        ELSE LET e == CHOOSE i \in hits : \A j \in hits : i <= j
                 before == {i \in 1..(e - 1) : Separator(i)} \cup {0}
                 after == {i \in (e + 1)..Len(s) : s[i] = ","} \cup {Len(s) + 1}
                 start == 1 + CHOOSE i \in before : \A j \in before : i >= j
                 stop == CHOOSE i \in after : \A j \in after : i <= j
             IN  [found |-> TRUE,
                  key |-> SubSeq(s, start, e - 1),
                  value |-> SubSeq(s, e + 1, stop - 1),
                  suffix |-> SubSeq(s, stop, Len(s))]

\* Limits of int.
IntMax == 2147483647

\* The leading blanks of s dropped, as std::stoi does.
RECURSIVE SkipBlanks(_)
SkipBlanks(s) ==
    IF s # <<>> /\ Head(s) \in Blanks THEN SkipBlanks(Tail(s)) ELSE s

RECURSIVE SkipZeros(_)
SkipZeros(ds) ==
    IF Len(ds) > 1 /\ Head(ds) = "0" THEN SkipZeros(Tail(ds)) ELSE ds

\* std::stoi, lines 75, 79, 89, 90: blanks, an optional sign and the
\* leading digits; invalid_argument without a digit, out_of_range when the
\* number is not an int.
StoI(s) ==
    LET t == SkipBlanks(s)
        negative == t # <<>> /\ Head(t) = "-"
        signed == t # <<>> /\ Head(t) \in {"-", "+"}
        ds == SkipZeros(LeadingDigits(IF signed THEN Tail(t) ELSE t))
        high == DecimalValue(SubSeq(ds, 1, Len(ds) - 1))
        low == DigitValue(ds[Len(ds)])
        limit == IF negative THEN 8 ELSE 7
    IN  IF ds = <<>> THEN [thrown |-> "invalid_argument", value |-> 0]
        ELSE IF \/ Len(ds) > 10
                \/ Len(ds) = 10 /\ high > IntMax \div 10
                \/ Len(ds) = 10 /\ high = IntMax \div 10 /\ low > limit
        THEN [thrown |-> "out_of_range", value |-> 0]
        ELSE IF negative THEN [thrown |-> "none", value |-> (0 - 10 * high) - low]
        ELSE [thrown |-> "none", value |-> 10 * high + low]

\* std::regex_match with "(\d+)/(\d+)", lines 86-88.
FractionMatch(value) ==
    LET slash == Find(value, <<"/">>)
        num == Prefix(value, slash)
        den == DropPrefix(value, slash + 1)
    IN  [matched |-> slash # Npos /\ IsNumber(num) /\ IsNumber(den),
         num |-> num, den |-> den]

\* GstCaps result, line 43: width and height are not initialised (they are
\* read only after both were assigned), format is empty, framerate unset.
EmptyCaps ==
    [width |-> 0, height |-> 0, format |-> <<>>, framerate |-> <<>>,
     has_width |-> FALSE, has_height |-> FALSE]

\* parse, lines 64-93: one key=value pair.
ApplyPair(result, match) ==
    LET key == Trim(match.key)
        value == RemoveTypeAnnotation(Trim(match.value))
        number == StoI(value)
        fr_match == FractionMatch(value)
        num == StoI(fr_match.num)
        denom == StoI(fr_match.den)
    IN  IF key = <<"w", "i", "d", "t", "h">>
        THEN [thrown |-> number.thrown,
              value |-> [result EXCEPT !.width = number.value, !.has_width = TRUE]]
        ELSE IF key = <<"h", "e", "i", "g", "h", "t">>
        THEN [thrown |-> number.thrown,
              value |-> [result EXCEPT !.height = number.value, !.has_height = TRUE]]
        ELSE IF key = <<"f", "o", "r", "m", "a", "t">>
        THEN [thrown |-> "none", value |-> [result EXCEPT !.format = value]]
        ELSE IF key = <<"f", "r", "a", "m", "e", "r", "a", "t", "e">> /\ fr_match.matched
        THEN IF num.thrown # "none" THEN [thrown |-> num.thrown, value |-> result]
             ELSE IF denom.thrown # "none" THEN [thrown |-> denom.thrown, value |-> result]
             ELSE [thrown |-> "none",
                   value |-> [result EXCEPT !.framerate = <<<<num.value, denom.value>>>>]]
        ELSE [thrown |-> "none", value |-> result]

\* parse, lines 63-96: the loop over the pairs.
RECURSIVE ApplyPairs(_, _)
ApplyPairs(result, caps) ==
    LET match == RegexSearch(caps)
        applied == ApplyPair(result, match)
    IN  IF ~match.found THEN [thrown |-> "none", value |-> result]
        ELSE IF applied.thrown # "none" THEN applied
        ELSE ApplyPairs(applied.value, match.suffix)

\* parse, lines 46-53: the video/x-raw prefix and the comma after it removed.
RemovePrefix(caps) ==
    LET prefix == <<"v", "i", "d", "e", "o", "/", "x", "-", "r", "a", "w">>
        rest == DropPrefix(caps, Len(prefix))
    IN  IF ~StartsWith(caps, prefix) THEN caps
        ELSE IF rest # <<>> /\ Head(rest) = "," THEN Tail(rest)
        ELSE rest

\* The GstCaps a call returns: the public members.
Caps(width, height, format, framerate) ==
    [width |-> width, height |-> height, format |-> format, framerate |-> framerate]

\* parse left by an exception.
CapsThrew(e) == [state |-> "threw", thrown |-> e]

\* GstCaps::parse, lines 38-110.
GstParse(caps_str) ==
    LET pairs == ApplyPairs(EmptyCaps, RemovePrefix(caps_str))
        result == pairs.value
    IN  IF caps_str = <<>> THEN CapsThrew("invalid_argument")
        ELSE IF pairs.thrown # "none" THEN CapsThrew(pairs.thrown)
        ELSE IF ~result.has_width THEN CapsThrew("invalid_argument")
        ELSE IF ~result.has_height THEN CapsThrew("invalid_argument")
        ELSE Returned(Caps(result.width, result.height,
                           IF result.format = <<>> THEN <<"R", "G", "B">> ELSE result.format,
                           result.framerate))

\* GstCaps::from_simple, lines 120-126.
FromSimple(width, height, format) == Caps(width, height, format, <<>>)

\* ------------------------------------------------------- GstCaps frame size
\* Values of int and size_t are kept at their width as little-endian
\* sequences of bytes: 4 bytes hold an int, 8 a size_t.
ByteBase == 2^8

IntBytes == 4

SizeBytes == 8

\* The k bytes of n, 0 <= n <= IntMax.
ToBytes(n, k) ==
    [i \in 1..k |-> IF i <= IntBytes THEN (n \div ByteBase^(i - 1)) % ByteBase ELSE 0]

\* Column i of the long multiplication of a and b.
RECURSIVE ColumnSum(_, _, _, _)
ColumnSum(a, b, i, j) ==
    IF j > i THEN 0
    ELSE (IF j <= Len(a) /\ i - j + 1 <= Len(b) THEN a[j] * b[i - j + 1] ELSE 0)
         + ColumnSum(a, b, i, j + 1)

RECURSIVE MulFrom(_, _, _, _, _)
MulFrom(a, b, k, i, carry) ==
    IF i > k THEN <<>>
    ELSE LET t == ColumnSum(a, b, i, 1) + carry
         IN  <<t % ByteBase>> \o MulFrom(a, b, k, i + 1, t \div ByteBase)

\* The product of a and b modulo ByteBase^k.
MulBytes(a, b, k) == MulFrom(a, b, k, 1, 0)

RECURSIVE NegFrom(_, _, _)
NegFrom(a, i, carry) ==
    IF i > Len(a) THEN <<>>
    ELSE LET t == (ByteBase - 1 - a[i]) + carry
         IN  <<t % ByteBase>> \o NegFrom(a, i + 1, t \div ByteBase)

\* Two's complement: the bytes of -a modulo ByteBase^Len(a).
Negate(a) == NegFrom(a, 1, 1)

Abs(n) == IF n < 0 THEN 0 - n ELSE n

IsZero(a) == \A i \in 1..Len(a) : a[i] = 0

\* An int converted to size_t: the sign bit fills the upper bytes.
SignExtend(a) ==
    [i \in 1..SizeBytes |->
        IF i <= IntBytes THEN a[i]
        ELSE IF a[IntBytes] >= ByteBase \div 2 THEN ByteBase - 1 ELSE 0]

\* width * height, line 192: a product of two int, converted to size_t for
\* the second multiplication.  When the product is not an int the behaviour
\* is undefined: a build either keeps the low 32 bits of the product or
\* carries out the multiplication in 64 bits.
IntTimesInt(width, height) ==
    LET magnitude == MulBytes(ToBytes(Abs(width), IntBytes),
                              ToBytes(Abs(height), IntBytes), SizeBytes)
        negative == (width < 0) # (height < 0) /\ ~IsZero(magnitude)
        exact == IF negative THEN Negate(magnitude) ELSE magnitude
        wrapped == SignExtend(SubSeq(exact, 1, IntBytes))
    IN  IF wrapped = exact THEN {exact} ELSE {wrapped, exact}

\* get_channels, lines 173-183.
GetChannels(format) ==
    IF format = <<"R", "G", "B">> \/ format = <<"B", "G", "R">> THEN 3
    ELSE IF format = <<"R", "G", "B", "A">> \/ format = <<"B", "G", "R", "A">> THEN 4
    ELSE IF StartsWith(format, <<"G", "R", "A", "Y">>) THEN 1
    ELSE 3

\* get_bytes_per_pixel, lines 185-189.
GetBytesPerPixel(format) ==
    LET channels == GetChannels(format)
        bytes_per_channel == IF Find(format, <<"1", "6">>) # Npos THEN 2 ELSE 1
    IN  channels * bytes_per_channel

\* get_frame_size, lines 191-193: the values a build can return.
GetFrameSize(caps) ==
    {MulBytes(area, ToBytes(GetBytesPerPixel(caps.format), SizeBytes), SizeBytes) :
        area \in IntTimesInt(caps.width, caps.height)}

\* ------------------------------------------------- caps handed to GstCaps
\* A caps string [video/x-raw,]key=value,... by its pieces, or a plain text.
Pair(key, value) == [key |-> key, value |-> value]

CapsOf(prefixed, pairs) ==
    [given |-> TRUE, prefixed |-> prefixed, pairs |-> pairs, text |-> <<>>]

RawCaps(text) ==
    [given |-> TRUE, prefixed |-> FALSE, pairs |-> <<>>, text |-> text]

\* No string: the caps are made by from_simple.
NoCaps == [given |-> FALSE, prefixed |-> FALSE, pairs |-> <<>>, text |-> <<>>]

CapsPairs ==
    { Pair(<<"f", "o", "r", "m", "a", "t">>, <<"B", "G", "R">>), Pair(<<"f", "o", "r", "m", "a", "t">>, <<"(", "s", "t", "r", "i", "n", "g", ")", "G", "R", "A", "Y", "1", "6", "_", "L", "E">>),
      Pair(<<"w", "i", "d", "t", "h">>, <<"6", "4", "0">>), Pair(<<"w", "i", "d", "t", "h">>, <<"(", "i", "n", "t", ")", "6", "5", "5", "3", "6">>), Pair(<<"w", "i", "d", "t", "h">>, <<"x">>),
      Pair(<<"h", "e", "i", "g", "h", "t">>, <<"4", "8", "0">>), Pair(<<"h", "e", "i", "g", "h", "t">>, <<"(", "i", "n", "t", ")", "3", "2", "7", "6", "8">>),
      Pair(<<"h", "e", "i", "g", "h", "t">>, <<"9", "9", "9", "9", "9", "9", "9", "9", "9", "9", "9">>),
      Pair(<<"f", "r", "a", "m", "e", "r", "a", "t", "e">>, <<"3", "0", "/", "1">>), Pair(<<"f", "r", "a", "m", "e", "r", "a", "t", "e">>, <<"(", "f", "r", "a", "c", "t", "i", "o", "n", ")", "6", "0", "/", "1">>),
      Pair(<<"f", "r", "a", "m", "e", "r", "a", "t", "e">>, <<"3", "0">>) }

CapsInputs ==
    {CapsOf(prefixed, pairs) :
        prefixed \in BOOLEAN, pairs \in UNION {[1..k -> CapsPairs] : k \in 0..MaxPairs}}
    \cup {RawCaps(text) : text \in {<<"i", "n", "v", "a", "l", "i", "d", " ", "c", "a", "p", "s", " ", "s", "t", "r", "i", "n", "g">>, <<"w", "i", "d", "t", "h", " ", "=", " ", "2", " ", ",", " ", "h", "e", "i", "g", "h", "t", "=", "3">>}}

RECURSIVE PairsText(_)
PairsText(pairs) ==
    IF pairs = <<>> THEN <<>>
    ELSE pairs[1].key \o <<"=">> \o pairs[1].value
         \o (IF Len(pairs) > 1 THEN <<",">> \o PairsText(Tail(pairs)) ELSE <<>>)

\* The text of a caps string given by its pieces.
CapsText(parts) ==
    (IF parts.prefixed THEN <<"v", "i", "d", "e", "o", "/", "x", "-", "r", "a", "w">> ELSE <<>>)
    \o (IF parts.prefixed /\ parts.pairs # <<>> THEN <<",">> ELSE <<>>)
    \o PairsText(parts.pairs) \o parts.text

Widths == {-1, 0, 2, 640, 1920, 46341, 65536}

Heights == {1, 480, 1080, 32768, 46341}

Formats == {<<"R", "G", "B">>, <<"B", "G", "R">>, <<"R", "G", "B", "A">>, <<"B", "G", "R", "A">>, <<"G", "R", "A", "Y", "8">>, <<"G", "R", "A", "Y", "1", "6", "_", "L", "E">>, <<"R", "G", "B", "1", "6">>, <<"I", "4", "2", "0">>, <<>>}

\* A user parses the caps string (parse may throw).
G_Parse ==
    /\ gparts.given
    /\ gcaps.state = "pending"
    /\ gcaps' = GstParse(CapsText(gparts))
    /\ UNCHANGED <<gparts, gsize>>
    /\ UNCHANGED otherThanCaps

\* A user makes the caps with from_simple.
G_FromSimple(width, height, format) ==
    /\ ~gparts.given
    /\ gcaps.state = "pending"
    /\ gcaps' = Returned(FromSimple(width, height, format))
    /\ UNCHANGED <<gparts, gsize>>
    /\ UNCHANGED otherThanCaps

\* A user asks the caps for the bytes per pixel and the frame size.
G_GetFrameSize ==
    /\ gcaps.state = "returned"
    /\ gsize = <<>>
    /\ \E size \in GetFrameSize(gcaps.value) :
          gsize' = <<[bytes_per_pixel |-> GetBytesPerPixel(gcaps.value.format),
                      frame_size |-> size]>>
    /\ UNCHANGED <<gparts, gcaps>>
    /\ UNCHANGED otherThanCaps

CapsNext ==
    \/ G_Parse
    \/ \E width \in Widths, height \in Heights, format \in Formats :
          G_FromSimple(width, height, format)
    \/ G_GetFrameSize

CapsInit ==
    /\ oieb = InitOIEB(PayloadSize)
    /\ RingIdle(PayloadSize)
    /\ targc = 2
    /\ ToolIdle
    /\ cprotocol = ProtocolShm
    /\ ClientIdle
    /\ pparts = <<>>
    /\ ParseIdle
    /\ gparts \in CapsInputs \cup {NoCaps}
    /\ CapsIdle
    /\ OthersUnused({"tool", "client", "parse", "caps"})

CapsSpec == CapsInit /\ [][CapsNext]_vars

\* ------------------------------------------------------- the minimal example
\* examples/simple_client_minimal.cpp: main reads frames straight from a
\* zerobuffer::Reader.  mpc is the position of main: "start" (before the
\* reader exists), "loop" (the test at line 101), "read" (line 106),
\* "process" (the body for a valid frame, 108-121) or "exit".

\* The values of --exit-after tried: absent (-1), and one or two frames.
ExitAfters == {-1, 1, 2}

\* signal_handler, lines 45-48.
M_Signal ==
    /\ mpc # "exit"
    /\ mrunning
    /\ mrunning' = FALSE
    /\ UNCHANGED <<mpc, mframe, frame_count, exit_after>>
    /\ UNCHANGED otherThanExample

\* Line 92: the reader is created; its exception ends main in the outer
\* catch at 133-136.
M_CreateReader(ok) ==
    /\ mpc = "start"
    /\ mpc' = IF ok THEN "loop" ELSE "exit"
    /\ UNCHANGED <<mframe, frame_count, exit_after, mrunning>>
    /\ UNCHANGED otherThanExample

\* Line 101: the loop test.
M_LoopTest ==
    /\ mpc = "loop"
    /\ mpc' = IF mrunning THEN "read" ELSE "exit"
    /\ UNCHANGED <<mframe, frame_count, exit_after, mrunning>>
    /\ UNCHANGED otherThanExample

\* Lines 106-108 and 123-130: read_frame and what the loop does with its
\* outcome; the scope of an invalid frame ends at line 123.
M_ReadFrame(res) ==
    /\ mpc = "read"
    /\ res = "Frame" => frame_count < MaxFrames
    /\ IF res = "Frame"
       THEN mframe' = "held" /\ mpc' = "process"
       ELSE IF res = "WriterDead"
       THEN mpc' = "exit" /\ UNCHANGED mframe
       ELSE mpc' = "loop" /\ UNCHANGED mframe
    /\ UNCHANGED <<frame_count, exit_after, mrunning>>
    /\ UNCHANGED otherThanExample

\* Lines 109-123: count and print the frame, then leave its scope, by the
\* break of 118-121 or at the closing brace.
M_Process ==
    /\ mpc = "process"
    /\ frame_count' = frame_count + 1
    /\ mframe' = "none"
    /\ mpc' = IF exit_after > 0 /\ frame_count' >= exit_after
              THEN "exit" ELSE "loop"
    /\ UNCHANGED <<exit_after, mrunning>>
    /\ UNCHANGED otherThanExample

ExampleNext ==
    \/ M_Signal
    \/ \E ok \in BOOLEAN : M_CreateReader(ok)
    \/ M_LoopTest
    \/ \E res \in ReadResults : M_ReadFrame(res)
    \/ M_Process

\* A client and the minimal example, each in a process of its own.
ScopeNext == ClientNext \/ ExampleNext

ScopeInit ==
    /\ oieb = InitOIEB(PayloadSize)
    /\ RingIdle(PayloadSize)
    /\ cprotocol \in Protocols
    /\ ClientIdle
    /\ exit_after \in ExitAfters
    /\ ExampleIdle
    /\ OthersUnused({"client", "example"})

ScopeSpec == ScopeInit /\ [][ScopeNext]_vars

\* ------------------------------------------ a second caller of start()
\* A thread other than the owner calls start() on the same client
\* (client.hpp, lines 120-143) while the owner makes its own calls.  The
\* owner's calls are the actions C_...; the second caller's start() is taken
\* apart at its reads and writes of the shared fields.  opc is its position:
\* "idle" (not called yet), "checked" (past the tests of 121-127), "set"
\* (past the writes of 129-130) or "done".

\* Lines 121-127: the tests of running_ and of the callback.
O_StartCheck ==
    /\ ~terminated
    /\ opc = "idle"
    /\ opc' = IF running_ \/ frame_callback_ = "none" THEN "done" ELSE "checked"
    /\ UNCHANGED <<clientVars, terminated>>
    /\ UNCHANGED otherThanClientAndRace

\* Lines 129-130.
O_StartSet ==
    /\ ~terminated
    /\ opc = "checked"
    /\ running_' = TRUE
    /\ stop_requested_' = FALSE
    /\ opc' = "set"
    /\ UNCHANGED <<cprotocol, frame_callback_, processing_thread_, reader_,
                   writer_, video_format_, cpc, ucall, ulast, uthrown, ccaught,
                   cframe, nafter, terminated>>
    /\ UNCHANGED otherThanClientAndRace

\* Lines 133-142: the assignment to processing_thread_ destroys the
\* std::thread the handle owned before; destroying one that is joinable
\* calls std::terminate.
O_StartSpawn ==
    /\ ~terminated
    /\ opc = "set"
    /\ opc' = "done"
    /\ IF cprotocol \notin {ProtocolShm, ProtocolOr(ProtocolMjpeg, ProtocolHttp),
                            ProtocolOr(ProtocolMjpeg, ProtocolTcp)}
       THEN /\ running_' = FALSE
            /\ UNCHANGED <<processing_thread_, cpc, nafter, terminated>>
       ELSE IF processing_thread_ \in {"running", "finished"}
       THEN /\ terminated' = TRUE
            /\ UNCHANGED <<running_, processing_thread_, cpc, nafter>>
       ELSE /\ processing_thread_' = "running"
            /\ cpc' = IF cprotocol = ProtocolShm THEN "create" ELSE "mopen"
            /\ nafter' = 0
            /\ UNCHANGED <<running_, terminated>>
    /\ UNCHANGED <<cprotocol, frame_callback_, stop_requested_, reader_, writer_,
                   video_format_, ucall, ulast, uthrown, ccaught, cframe>>
    /\ UNCHANGED otherThanClientAndRace

OtherStart == O_StartCheck \/ O_StartSet \/ O_StartSpawn

RaceNext == ClientNext \/ OtherStart

RaceInit ==
    /\ oieb = InitOIEB(PayloadSize)
    /\ RingIdle(PayloadSize)
    /\ cprotocol \in Protocols
    /\ ClientIdle
    /\ RaceUnused
    /\ OthersUnused({"client", "race"})

RaceSpec == RaceInit /\ [][RaceNext]_vars

\* ------------------------------------------- choice of the connection string
\* RocketWelderClient::from_args (client.hpp, 80-101) and
\* get_connection_string behind Client::from (src/cpp/src/client.cpp, 66-95).
\* The environment variable CONNECTION_STRING is a sequence of at most one
\* text (getenv returns null when it is not set); args is argv[1..argc-1].

\* The first of the arguments at the positions hits, if any: the loops over
\* argv stop at the first argument that passes their test.
FirstArg(args, hits) ==
    IF hits = {} THEN <<>>
    ELSE <<args[CHOOSE i \in hits : \A j \in hits : i <= j]>>

\* client.hpp, lines 88-90.
StartsWithScheme(arg) ==
    \/ StartsWith(arg, <<"s", "h", "m", ":", "/", "/">>)
    \/ StartsWith(arg, <<"m", "j", "p", "e", "g", "+", "h", "t", "t", "p", ":", "/", "/">>)
    \/ StartsWith(arg, <<"m", "j", "p", "e", "g", "+", "t", "c", "p", ":", "/", "/">>)

\* client.cpp, lines 73-75 and 86-88.
FindsSchemeAtStart(arg) ==
    \/ Find(arg, <<"s", "h", "m", ":", "/", "/">>) = 0
    \/ Find(arg, <<"m", "j", "p", "e", "g", "+", "h", "t", "t", "p", ":", "/", "/">>) = 0
    \/ Find(arg, <<"m", "j", "p", "e", "g", "+", "t", "c", "p", ":", "/", "/">>) = 0

\* from_args, lines 82-98: the text handed to the constructor.
FromArgs(env, args) ==
    LET fromEnv == IF env # <<>> THEN env[1] ELSE <<>>
        arg == FirstArg(args, {i \in 1..Len(args) : StartsWithScheme(args[i])})
        connection_string == IF arg # <<>> THEN arg[1] ELSE fromEnv
    IN  IF connection_string = <<>> THEN <<"s", "h", "m", ":", "/", "/", "d", "e", "f", "a", "u", "l", "t">> ELSE connection_string

\* get_connection_string, lines 66-95.
GetConnectionString(env, args) ==
    LET arg == FirstArg(args, {i \in 1..Len(args) : FindsSchemeAtStart(args[i])})
    IN  IF env # <<>>
        THEN IF arg # <<>> THEN arg[1] ELSE env[1]
        ELSE IF arg # <<>> THEN arg[1] ELSE <<"s", "h", "m", ":", "/", "/", "d", "e", "f", "a", "u", "l", "t">>

\* The arguments and the values of the variable tried.
ArgTexts ==
    {<<"s", "h", "m", ":", "/", "/", "a">>, <<"m", "j", "p", "e", "g", "+", "h", "t", "t", "p", ":", "/", "/", "h">>, <<"m", "j", "p", "e", "g", "+", "t", "c", "p", ":", "/", "/", "h">>, <<"-", "-", "e", "x", "i", "t", "-", "a", "f", "t", "e", "r">>, <<"x", "s", "h", "m", ":", "/", "/", "a">>,
     <<"s", "h", "m", ":", "/", "a">>, <<>>}

EnvTexts == {<<"s", "h", "m", ":", "/", "/", "e">>, <<"t", "c", "p", ":", "/", "/", "e">>, <<>>}

ArgLists == UNION {[1..n -> ArgTexts] : n \in 0..MaxArgs}

S_FromArgs ==
    /\ sfrom_args = <<>>
    /\ sfrom_args' = <<FromArgs(senv, sargs)>>
    /\ UNCHANGED <<senv, sargs, sfrom>>
    /\ UNCHANGED otherThanSelect

\* Client::from, lines 100-103.
S_From ==
    /\ sfrom = <<>>
    /\ sfrom' = <<GetConnectionString(senv, sargs)>>
    /\ UNCHANGED <<senv, sargs, sfrom_args>>
    /\ UNCHANGED otherThanSelect

SelectNext == S_FromArgs \/ S_From

SelectInit ==
    /\ oieb = InitOIEB(PayloadSize)
    /\ RingIdle(PayloadSize)
    /\ senv \in {<<>>} \cup {<<e>> : e \in EnvTexts}
    /\ sargs \in ArgLists
    /\ SelectIdle
    /\ OthersUnused({"select"})

SelectSpec == SelectInit /\ [][SelectNext]_vars

\* ------------------------------------------------------------ parse_metadata
\* RocketWelderClient::parse_metadata (client.hpp, 217-268).  The reader
\* belongs to the zerobuffer library: get_metadata_size() is the number of
\* metadata bytes written and get_metadata_raw() points at them, or is null.

\* An unsigned value as a little-endian sequence of bytes is greater than
\* another of the same length.
UIntGreater(a, b) ==
    \E i \in 1..Len(a) : a[i] > b[i] /\ \A j \in (i + 1)..Len(a) : a[j] = b[j]

\* The number a sequence of bytes holds, for one below 2^31.
UIntValue(a) ==
    LET RECURSIVE From(_)
        From(i) == IF i > Len(a) THEN 0 ELSE a[i] + ByteBase * From(i + 1)
    IN  From(1)

\* The byte at an offset from the pointer; beyond the metadata lies memory
\* the call has no business with, read here as 0.
ByteAt(meta, i) == IF i \in 1..Len(meta) THEN meta[i] ELSE 0

\* What the JSON text of the metadata turns out to be: not JSON (244-246),
\* a caps string GstCaps::parse accepts or throws on (249-255), width and
\* height (258-264), neither, or a value on which an accessor throws.
JsonOutcomes ==
    {"syntax_error", "caps", "caps_throws", "fields", "no_fields", "json_throws"}

\* The body as it would be without the test of lines 220-222.
ParseMetadataBody_NoSizeTest(meta, ptr, json) ==
    LET metadata_size == Len(meta)
        json_size == [i \in 1..4 |-> ByteAt(meta, i)]
        Ended(n, assigned, how) ==
            [reads |-> n, format |-> assigned, state |-> how]
    IN  IF metadata_size < 0
        THEN Ended(0, FALSE, "returned")
        ELSE IF ~ptr
        THEN Ended(0, FALSE, "returned")
        ELSE IF IsZero(json_size) \/ UIntGreater(json_size, ToBytes(metadata_size - 4, 4))
        THEN Ended(4, FALSE, "returned")
        ELSE IF json \in {"caps_throws", "json_throws"}
        THEN Ended(4 + UIntValue(json_size), FALSE, "threw")
        ELSE Ended(4 + UIntValue(json_size), json \in {"caps", "fields"}, "returned")

\* The body of the try block, lines 219-264: the bytes read, whether
\* video_format_ was assigned, and whether the body returned or threw.
ParseMetadataBody(meta, ptr, json) ==
    LET metadata_size == Len(meta)
        json_size == [i \in 1..4 |-> ByteAt(meta, i)]
        Ended(n, assigned, how) ==
            [reads |-> n, format |-> assigned, state |-> how]
    IN  IF metadata_size <= 4
        THEN Ended(0, FALSE, "returned")
        ELSE IF ~ptr
        THEN Ended(0, FALSE, "returned")
        ELSE IF IsZero(json_size) \/ UIntGreater(json_size, ToBytes(metadata_size - 4, 4))
        THEN Ended(4, FALSE, "returned")
        ELSE IF json \in {"caps_throws", "json_throws"}
        THEN Ended(4 + UIntValue(json_size), FALSE, "threw")
        ELSE Ended(4 + UIntValue(json_size), json \in {"caps", "fields"}, "returned")

\* Lines 218 and 265-267: whatever the body throws ends in catch (...).
ParseMetadata(meta, ptr, json) ==
    [ParseMetadataBody(meta, ptr, json) EXCEPT !.state = "returned"]

D_ParseMetadata(json) ==
    /\ doutcome.state = "pending"
    /\ LET r == ParseMetadata(dmeta, dptr, json)
       IN  /\ dreads' = r.reads
           /\ doutcome' = [state |-> r.state, format |-> r.format, json |-> json]
    /\ UNCHANGED <<dmeta, dptr>>
    /\ UNCHANGED otherThanMetaParse

\* The metadata bytes tried.
ByteValues == {0, 1, 2, 255}

MetaParseInit ==
    /\ oieb = InitOIEB(PayloadSize)
    /\ RingIdle(PayloadSize)
    /\ dmeta \in UNION {[1..n -> ByteValues] : n \in 0..MaxMeta}
    /\ dptr \in BOOLEAN
    /\ MetaParseIdle
    /\ OthersUnused({"metadata"})

MetaParseNext == \E json \in JsonOutcomes : D_ParseMetadata(json)

MetaParseSpec == MetaParseInit /\ [][MetaParseNext]_vars

\* ------------------------------------------------------ to_string and back
\* ConnectionString::to_string (connection_string.hpp, 148-175) and parse on
\* its result.

\* operator<< of an unsigned number: its decimal digits.
RECURSIVE Decimal(_)
Decimal(n) ==
    IF n < 10 THEN <<Digits[n + 1]>>
    ELSE Decimal(n \div 10) \o <<Digits[(n % 10) + 1]>>

\* optional.value_or(text).
ValueOr(optional, text) == IF optional # <<>> THEN optional[1] ELSE text

\* Lines 157-163 and 165-171: host, port and path of a network protocol.
NetworkText(c) ==
    ValueOr(c.host, <<>>)
        \o (IF c.port # <<>> THEN <<":">> \o Decimal(c.port[1]) ELSE <<>>)
        \o (IF c.path # <<>> THEN <<"/">> \o c.path[1] ELSE <<>>)

\* to_string, lines 148-175.
ConnectionToString(c) ==
    IF c.protocol = ProtocolShm
    THEN <<"s", "h", "m", ":", "/", "/">> \o ValueOr(c.buffer_name, <<"d", "e", "f", "a", "u", "l", "t">>)
            \o <<"?", "b", "u", "f", "f", "e", "r", "_", "s", "i", "z", "e", "=">> \o Decimal(c.buffer_size)
            \o <<"&", "m", "e", "t", "a", "d", "a", "t", "a", "_", "s", "i", "z", "e", "=">> \o Decimal(c.metadata_size)
            \o <<"&", "m", "o", "d", "e", "=">> \o c.mode
    ELSE IF c.protocol = ProtocolOr(ProtocolMjpeg, ProtocolHttp)
    THEN <<"m", "j", "p", "e", "g", "+", "h", "t", "t", "p", ":", "/", "/">> \o NetworkText(c)
    ELSE IF c.protocol = ProtocolOr(ProtocolMjpeg, ProtocolTcp)
    THEN <<"m", "j", "p", "e", "g", "+", "t", "c", "p", ":", "/", "/">> \o NetworkText(c)
    ELSE <<>>

\* The buffer names, sizes and modes tried; a name is an optional.
RoundNames ==
    {<<>>, <<<<>>>>, <<<<"a">>>>, <<<<"t", "e", "s", "t">>>>, <<<<"d", "e", "f", "a", "u", "l", "t">>>>, <<<<"a", "/", "b">>>>, <<<<"a", "?", "b">>>>,
     <<<<"a", "&", "b">>>>}

RoundSizes == {0, 7, 2048, DefaultMetadataSize, DefaultBufferSize}

RoundModes == {<<"o", "n", "e", "w", "a", "y">>, <<"d", "u", "p", "l", "e", "x">>, <<>>, <<"a", "&", "b">>}

RoundConnections ==
    {[DefaultConnection EXCEPT !.protocol = ProtocolShm, !.buffer_name = name,
                               !.buffer_size = bsize, !.metadata_size = msize,
                               !.mode = mode] :
        name \in RoundNames, bsize \in RoundSizes, msize \in RoundSizes,
        mode \in RoundModes}

R_ToString ==
    /\ roundText = <<>>
    /\ roundText' = <<ConnectionToString(roundConn[1])>>
    /\ UNCHANGED <<roundConn, roundBack>>
    /\ UNCHANGED otherThanRound

R_Parse ==
    /\ roundText # <<>>
    /\ roundBack.state = "pending"
    /\ roundBack' = Parse(roundText[1])
    /\ UNCHANGED <<roundConn, roundText>>
    /\ UNCHANGED otherThanRound

RoundTripNext == R_ToString \/ R_Parse

RoundTripInit ==
    /\ oieb = InitOIEB(PayloadSize)
    /\ RingIdle(PayloadSize)
    /\ roundConn \in {<<c>> : c \in RoundConnections}
    /\ RoundIdle
    /\ OthersUnused({"round"})

RoundTripSpec == RoundTripInit /\ [][RoundTripNext]_vars

\* ------------------------------------------------------------------ claims
\* Bytes of the ring held by the frames written and not yet released:
\* headers, payloads and the tails given up at wrap markers.
RECURSIVE SumUsed(_, _)
SumUsed(frames, k) ==
    IF k > Len(frames) THEN 0 ELSE frames[k].used + SumUsed(frames, k + 1)

OccupiedBytes == SumUsed(written, nReleased + 1)

\* Neither side stands between its change of the ring and its update of
\* payload_free_bytes.
FreeBytesSettled == wpc \notin {"dec", "dec2"} /\ rpc # "rel2"

\* C8: under every interleaving of write_frame and release,
\* payload_free_bytes equals payload_size minus the bytes occupied by
\* unreleased frames; no update of one side is lost to the other.
C8_FreeBytesExact ==
    FreeBytesSettled => oieb.payload_free_bytes = oieb.payload_size - OccupiedBytes

\* The frames written and not yet released.
Unreleased == (nReleased + 1)..Len(written)

\* The ring still holds frame k as it was written.
FrameIntact(k) ==
    LET f == written[k]
    IN  /\ ring[f.pos] = FrameHeader(f.seq, Len(f.data))
        /\ \A i \in 1..Len(f.data) : ring[f.pos + i] = DataCell(f.data[i])

\* C1: the frames the reader obtains are a prefix of the frames written,
\* each with the same length and bytes: none skipped, duplicated, reordered.
C1_FifoDelivery ==
    /\ Len(delivered) <= Len(written)
    /\ \A k \in 1..Len(delivered) :
          /\ delivered[k].seq = written[k].seq
          /\ delivered[k].data = written[k].data

\* C10: write_frame never writes into space that is not free: the bytes of
\* a frame that has not been released are never overwritten.
C10_NeverOverwritesUnreleased == \A k \in Unreleased : FrameIntact(k)

\* C5: wraparound is transparent: a frame that does not fit before the
\* physical end of the ring is restarted at offset 0 behind a wrap marker
\* at the write position, the reader that meets the marker continues at
\* offset 0, and the payload it obtains is the payload written.
C5_WrapTransparent ==
    /\ \A k \in 1..Len(written) :
          written[k].wrapped =>
              /\ written[k].pos = 0
              /\ written[k].at + FrameBytes(Len(written[k].data)) > oieb.payload_size
    /\ rframe.skipped > 0 => rframe.pos = 0
    /\ \A k \in 1..Len(delivered) :
          (k <= Len(written) /\ written[k].wrapped) =>
              delivered[k].data = written[k].data

\* Frames whose write_frame has published them in payload_written_count:
\* between storing the bytes and the count update the frame is in progress.
PublishedFrames == Len(written) - (IF wpc \in {"dec", "dec2"} THEN 1 ELSE 0)

\* C2: payload_written_count - payload_read_count equals the number of
\* frames written and not yet released, payload_read_count never exceeds
\* payload_written_count, and both counters only ever increase.
C2_CountersMatchFrames ==
    /\ [](/\ oieb.payload_written_count - oieb.payload_read_count
                = PublishedFrames - nReleased
          /\ oieb.payload_read_count <= oieb.payload_written_count)
    /\ [][/\ oieb'.payload_written_count >= oieb.payload_written_count
          /\ oieb'.payload_read_count >= oieb.payload_read_count]_vars

C2_Witness ==
    /\ oieb.payload_written_count = 2
    /\ oieb.payload_read_count = 1
    /\ nReleased = 1

\* C4: a write_frame call with a frame larger than payload_size minus the
\* framing overhead returns CapacityError and leaves the ring, every OIEB
\* field and the data semaphore unchanged; no such frame is ever in
\* progress or in the ring.
C4_OversizeRejected ==
    /\ [](/\ \A k \in 1..Len(written) :
                Len(written[k].data) <= oieb.payload_size - HeaderSize
          /\ wpc \in {"check", "wait", "dec", "dec2"} =>
                Len(wframe) <= oieb.payload_size - HeaderSize)
    /\ [][\A n \in FrameLens :
            (n > oieb.payload_size - HeaderSize /\ W_WriteFrame(n, MaxWrites)) =>
                /\ wresult' = "CapacityError"
                /\ wpc' = "idle"
                /\ UNCHANGED <<oieb, ring, dataSem, spaceSem, written>>]_vars

C4_Witness ==
    /\ wresult = "CapacityError"
    /\ oieb.payload_written_count = 1
    /\ oieb.payload_free_bytes < oieb.payload_size

\* C6: metadata is write-once: after one successful write_metadata the
\* reader retrieves exactly those bytes at any later point, and every
\* further call fails with AlreadyWritten and leaves the stored metadata
\* and metadata_written_bytes / metadata_free_bytes unchanged.
C6_MetadataWriteOnce ==
    /\ [](/\ Len(metaAccepted) <= 1
          /\ Len(metaAccepted) = 1 =>
                /\ MetadataAvailable
                /\ GetMetadata = metaAccepted[1])
    /\ [][(MetadataAvailable /\ metaCalls' # metaCalls) =>
                /\ wresult' = "AlreadyWritten"
                /\ UNCHANGED <<metadata, oieb>>]_vars

C6_Witness ==
    /\ wresult = "AlreadyWritten"
    /\ Len(metaAccepted) = 1
    /\ GetMetadata = <<1>>
    /\ oieb.payload_read_count = 1

\* C7: after any sequence of writer and reader operations oieb_size is 128,
\* both ring positions are below payload_size and metadata_free_bytes +
\* metadata_written_bytes is metadata_size.
C7_OiebInvariants ==
    /\ oieb.oieb_size = 128
    /\ oieb.payload_write_pos < oieb.payload_size
    /\ oieb.payload_read_pos < oieb.payload_size
    /\ oieb.metadata_free_bytes + oieb.metadata_written_bytes = oieb.metadata_size

C7_Witness ==
    /\ oieb.metadata_written_bytes = 2
    /\ oieb.payload_written_count = 2
    /\ oieb.payload_read_count = 2
    /\ written[2].wrapped
    /\ rpc = "loop"

\* C9: signals match frames one to one: the data semaphore is signalled
\* once for each frame written, after the OIEB update; each release signals
\* the space semaphore once, and a frame the consumer has processed is
\* released and signalled before the consumer reads again.
C9_SignalsMatchFrames ==
    /\ nDataSignals
          = oieb.payload_written_count - (IF wpc = "signal" THEN 1 ELSE 0)
    /\ nSpaceSignals
          = oieb.payload_read_count - (IF rpc \in {"rel2", "relsig"} THEN 1 ELSE 0)
    /\ rpc \in {"loop", "wait", "stopped"} => nSpaceSignals = Len(delivered)

C9_Witness ==
    /\ nDataSignals = 2
    /\ nSpaceSignals = 2
    /\ rpc = "wait"

ErrorLines ==
    {"size_mismatch", "struct_size", "payload_zero", "metadata_zero",
     "write_pos", "read_pos"}

\* C11: the exit code of the diagnostic tool classifies the run: 1 exactly
\* when the segment was never mapped (wrong arguments, or open, size or map
\* failed), 2 exactly when it was mapped and an ERROR line was printed, 0
\* exactly when it was mapped and none was printed; there is no other code.
C11_ExitCodeClassifies ==
    /\ texit \in {-1, 0, 1, 2}
    /\ texit = -1 <=> tpc # "exit"
    /\ tpc = "exit" =>
        /\ texit = 1 <=> tmap = "none"
        /\ texit = 2 <=> (tmap # "none" /\ tout \cap ErrorLines # {})
        /\ texit = 0 <=> (tmap # "none" /\ tout \cap ErrorLines = {})

C11_Witness ==
    /\ tpc = "exit"
    /\ texit = 2
    /\ tout \cap ErrorLines = {"write_pos"}

\* C12: a mapped control block whose oieb_size is not 128 makes the tool
\* print the size-mismatch line and exit with 2, whatever the other fields
\* hold.
C12_WrongSizeRejected ==
    (tpc = "exit" /\ tmap # "none" /\ oieb.oieb_size # 128) =>
        /\ "size_mismatch" \in tout
        /\ texit = 2

C12_Witness ==
    /\ tpc = "exit"
    /\ oieb.oieb_size = 64
    /\ tout \cap ErrorLines = {"size_mismatch"}
    /\ texit = 2

\* The invariants of the control block in the data model.
DataModelInvariants(o) ==
    /\ o.oieb_size = 128
    /\ o.version.major = 1
    /\ o.payload_write_pos < o.payload_size
    /\ o.payload_read_pos < o.payload_size
    /\ o.metadata_free_bytes + o.metadata_written_bytes = o.metadata_size
    /\ o.payload_read_count <= o.payload_written_count

\* C13: the tool exits with 0 only for a block that satisfies every OIEB
\* invariant: size 128, compatible version, both positions below
\* payload_size, metadata_free_bytes + metadata_written_bytes =
\* metadata_size, payload_read_count <= payload_written_count.
C13_ValidOnlyIfInvariants ==
    (tpc = "exit" /\ texit = 0) => DataModelInvariants(oieb)

\* What the user of a client can observe through its interface:
\* is_running(), the exception of the call that just returned, and the
\* frame callback being invoked.
UserView == <<running_, uthrown, cpc \in {"callback", "mcallback"}>>

\* C14: protocol-level errors raised while reading frames are never
\* swallowed: a step in which the processing loop receives a writer-dead or
\* other protocol error changes something the user of the client can
\* observe.
C14_ErrorsSurfaced ==
    [][(ccaught' \cap {"WriterDead", "Corruption"}) #
          (ccaught \cap {"WriterDead", "Corruption"})
            => UserView' # UserView]_vars

\* C15: resources are released on every exit path: when the diagnostic tool
\* has terminated its descriptor is not open and its mapping is not mapped;
\* when stop() or the destructor of the client has completed the processing
\* thread is joined (or never existed) and the reader and writer handles are
\* empty.
C15_ResourcesReleased ==
    /\ tpc = "exit" =>
        /\ tfd \in {"unset", "closed"}
        /\ tmap \in {"none", "unmapped"}
    /\ (ucall = "none" /\ ulast \in {"stop", "dtor"}) =>
        /\ processing_thread_ \in {"none", "joined"}
        /\ reader_ = "empty"
        /\ writer_ = "empty"

C15_Witness ==
    /\ tpc = "exit"
    /\ "map_error" \in tout
    /\ tfd = "closed"
    /\ ucall = "none"
    /\ ulast = "dtor"
    /\ processing_thread_ = "joined"
    /\ "WriterDead" \in ccaught

\* The values the query gives a key.
ValuesOf(params, key) ==
    {params[i].value : i \in {j \in 1..Len(params) : params[j].key = key /\ params[j].eq}}

\* The field a query key should set: one of the key's values, or the default
\* without the key.
KeyOrDefault(values, default) == IF values = {} THEN {default} ELSE values

\* C16: for every connection string shm://<name>[?query] (sizes given as
\* decimal numbers) parse yields protocol Shm, buffer_name <name>, or
\* "default" for an empty name, and buffer_size, metadata_size and mode as
\* the query keys of those names give them, or 10485760, 65536 and "oneway"
\* without the key.
C16_ShmParsed ==
    ( /\ "parse" \in pcalls
      /\ pparts.sep
      /\ pparts.scheme = <<"s", "h", "m">>
      /\ \A v \in ValuesOf(pparts.params, <<"b", "u", "f", "f", "e", "r", "_", "s", "i", "z", "e">>)
                \cup ValuesOf(pparts.params, <<"m", "e", "t", "a", "d", "a", "t", "a", "_", "s", "i", "z", "e">>) : IsNumber(v) )
    => /\ poutcome.state = "returned"
       /\ poutcome.value.protocol = ProtocolShm
       /\ poutcome.value.buffer_name =
            <<IF pparts.host = <<>> THEN <<"d", "e", "f", "a", "u", "l", "t">> ELSE pparts.host>>
       /\ poutcome.value.buffer_size \in
            KeyOrDefault({DecimalValue(v) :
                            v \in ValuesOf(pparts.params, <<"b", "u", "f", "f", "e", "r", "_", "s", "i", "z", "e">>)}, 10485760)
       /\ poutcome.value.metadata_size \in
            KeyOrDefault({DecimalValue(v) :
                            v \in ValuesOf(pparts.params, <<"m", "e", "t", "a", "d", "a", "t", "a", "_", "s", "i", "z", "e">>)}, 65536)
       /\ poutcome.value.mode \in
            KeyOrDefault(ValuesOf(pparts.params, <<"m", "o", "d", "e">>), <<"o", "n", "e", "w", "a", "y">>)

\* C17: for every connection string mjpeg+http://<host>:<port>/<path> or
\* mjpeg+tcp://<host>:<port>[/<path>] parse yields the combined protocol
\* flags, host <host>, port the integer <port> denotes, and path <path>
\* without its leading slash, unset when there is none.
C17_NetworkParsed ==
    ( /\ "parse" \in pcalls
      /\ pparts.sep
      /\ pparts.scheme \in {<<"m", "j", "p", "e", "g", "+", "h", "t", "t", "p">>, <<"m", "j", "p", "e", "g", "+", "t", "c", "p">>}
      /\ pparts.port # <<>>
      /\ IsNumber(pparts.port[1])
      /\ pparts.params = <<>> )
    => /\ poutcome.state = "returned"
       /\ poutcome.value.protocol =
            (IF pparts.scheme = <<"m", "j", "p", "e", "g", "+", "h", "t", "t", "p">> THEN 2 + 4 ELSE 2 + 8)
       /\ poutcome.value.host = <<pparts.host>>
       /\ poutcome.value.port = <<DecimalValue(pparts.port[1])>>
       /\ poutcome.value.path =
            (IF pparts.path = <<>> \/ Tail(pparts.path[1]) = <<>>
             THEN <<>> ELSE <<Tail(pparts.path[1])>>)

\* The schemes the claim lists as known.
KnownSchemes == {<<"s", "h", "m">>, <<"m", "j", "p", "e", "g", "+", "h", "t", "t", "p">>, <<"m", "j", "p", "e", "g", "+", "t", "c", "p">>, <<"h", "t", "t", "p">>, <<"t", "c", "p">>}

\* C18: try_parse never throws: it returns the value parse returns whenever
\* parse succeeds and an empty optional exactly when parse throws, and parse
\* throws for the empty string, for a string without "://" and for a scheme
\* other than shm, mjpeg+http, mjpeg+tcp, http and tcp.
C18_TryParseNeverThrows ==
    /\ ("try_parse" \in pcalls /\ "parse" \in pcalls)
       => /\ poutcome.state = "returned" => ptry = <<poutcome.value>>
          /\ ptry = <<>> <=> poutcome.state = "threw"
    /\ ("parse" \in pcalls /\ (~pparts.sep \/ pparts.scheme \notin KnownSchemes))
       => poutcome.state = "threw" /\ poutcome.thrown = "invalid_argument"

C18_Witness ==
    /\ pcalls = {"parse", "try_parse"}
    /\ pparts.sep
    /\ pparts.scheme = <<"f", "t", "p">>
    /\ poutcome.state = "threw"
    /\ ptry = <<>>

\* Whether a text occurs in the caps string.
CapsContain(text) == Find(CapsText(gparts), text) # Npos

\* Whether a value has the form n/d, with or without its type annotation.
IsFraction(value) ==
    LET Fraction(v) ==
            \E k \in 1..Len(v) :
                /\ v[k] = "/"
                /\ IsNumber(SubSeq(v, 1, k - 1))
                /\ IsNumber(SubSeq(v, k + 1, Len(v)))
    IN  \/ Fraction(value)
        \/ StartsWith(value, <<"(", "f", "r", "a", "c", "t", "i", "o", "n", ")">>) /\ Fraction(DropPrefix(value, 10))

\* C19: parse succeeds only when the caps string has both a width and a
\* height key; it throws invalid_argument for the empty string, for a
\* string without "width" and for a string without "height"; when it
\* succeeds without a format key the format is "RGB", and the framerate is
\* set only when a framerate key of the form n/d is present.
C19_ParseNeedsWidthAndHeight ==
    (gparts.given /\ gcaps.state # "pending")
    => /\ gcaps.state = "returned"
          => CapsContain(<<"w", "i", "d", "t", "h">>) /\ CapsContain(<<"h", "e", "i", "g", "h", "t">>)
       /\ ( \/ CapsText(gparts) = <<>>
            \/ ~CapsContain(<<"w", "i", "d", "t", "h">>)
            \/ ~CapsContain(<<"h", "e", "i", "g", "h", "t">>) )
          => gcaps.state = "threw" /\ gcaps.thrown = "invalid_argument"
       /\ (gcaps.state = "returned" /\ ~CapsContain(<<"f", "o", "r", "m", "a", "t">>))
          => gcaps.value.format = <<"R", "G", "B">>
       /\ (gcaps.state = "returned" /\ gcaps.value.framerate # <<>>)
          => \E i \in 1..Len(gparts.pairs) :
                /\ gparts.pairs[i].key = <<"f", "r", "a", "m", "e", "r", "a", "t", "e">>
                /\ IsFraction(gparts.pairs[i].value)

\* The bytes per pixel the claim gives a format.
PixelBytes(format) ==
    (IF format \in {<<"R", "G", "B">>, <<"B", "G", "R">>} THEN 3
     ELSE IF format \in {<<"R", "G", "B", "A">>, <<"B", "G", "R", "A">>} THEN 4
     ELSE IF StartsWith(format, <<"G", "R", "A", "Y">>) THEN 1
     ELSE 3)
    * (IF \E i \in 1..(Len(format) - 1) : format[i] = "1" /\ format[i + 1] = "6"
       THEN 2 ELSE 1)

\* C20: for every width, height and format get_bytes_per_pixel() is the
\* channel count (3 for RGB/BGR, 4 for RGBA/BGRA, 1 for GRAY*, 3 otherwise)
\* times 2 if the format contains "16", and get_frame_size() is the
\* mathematical product width x height x get_bytes_per_pixel(), neither
\* wrapped nor truncated.
C20_FrameSizeIsProduct ==
    gsize # <<>>
    => LET caps == gcaps.value
           product == MulBytes(MulBytes(ToBytes(Abs(caps.width), IntBytes),
                                        ToBytes(Abs(caps.height), IntBytes),
                                        SizeBytes + 1),
                               ToBytes(PixelBytes(caps.format), SizeBytes + 1),
                               SizeBytes + 1)
       IN  /\ gsize[1].bytes_per_pixel = PixelBytes(caps.format)
           /\ (caps.width < 0) = (caps.height < 0) \/ IsZero(product)
           /\ product = gsize[1].frame_size \o <<0>>

\* The protocols start() has a processing method for, lines 133-138.
StartableProtocols ==
    {ProtocolShm, ProtocolOr(ProtocolMjpeg, ProtocolHttp),
     ProtocolOr(ProtocolMjpeg, ProtocolTcp)}

\* C21: a rejected call leaves the client unchanged and not running:
\* on_frame with an empty callback throws invalid_argument and keeps the
\* callback registered before; start() on a client that is not running, with
\* no callback or with a protocol other than shm, mjpeg+http and mjpeg+tcp,
\* throws runtime_error, and after it the client is not running, has no
\* processing thread and its callback is as before.
C21_RejectedCallLeavesClient ==
    [][/\ C_OnFrame("none") =>
            /\ uthrown' = "invalid_argument"
            /\ UNCHANGED <<frame_callback_, running_, stop_requested_,
                           processing_thread_, cpc, reader_, writer_>>
       /\ (C_Start /\ ~running_
             /\ (frame_callback_ = "none" \/ cprotocol \notin StartableProtocols)) =>
            /\ uthrown' = "runtime_error"
            /\ ~running_'
            /\ processing_thread_' = "none"
            /\ cpc' = "idle"
            /\ UNCHANGED frame_callback_]_vars

C21_Witness ==
    /\ ulast = "start"
    /\ uthrown = "runtime_error"
    /\ frame_callback_ = "set"
    /\ cprotocol = ProtocolHttp
    /\ ~running_

\* The fields of the client object.
ClientFields ==
    <<frame_callback_, running_, stop_requested_, processing_thread_, reader_,
      writer_, video_format_>>

\* C23: after stop() has returned the client is not running, the processing
\* thread has terminated and is joined (or never existed), the reader and
\* writer handles are empty and the thread is in no callback, which stays so
\* until start() is called again; stop() on a client that is not running
\* changes no field of the client.
C23_StoppedClient ==
    [][/\ (ulast' = "stop" /\ ucall' = "none") =>
            /\ ~running_'
            /\ processing_thread_' \in {"none", "joined"}
            /\ reader_' = "empty"
            /\ writer_' = "empty"
            /\ cpc' = "idle"
       /\ (cpc = "idle" /\ cpc' # "idle") => C_Start
       /\ (C_StopBegin("stop") /\ ~running_) =>
            /\ UNCHANGED ClientFields
            /\ UNCHANGED <<cpc, ucall>>]_vars

C23_Witness ==
    /\ ulast = "stop"
    /\ ucall = "none"
    /\ processing_thread_ = "joined"
    /\ "WriterDead" \notin ccaught
    /\ video_format_

\* C29: in shared-memory mode the callback is invoked only for a valid frame
\* read while a video format is known: the callback is entered only from a
\* held frame with a format; a valid frame without a format is released
\* undelivered and the loop goes on after the catch; a timed-out read leads
\* to no callback; the metadata is parsed only while no format is held, and
\* a format once obtained is never cleared, not even by stop().
C29_CallbackNeedsFormat ==
    [][/\ cpc' = "callback" => (video_format_' /\ cframe' = "held")
       /\ (cpc # "callback" /\ cpc' = "callback") => cpc = "got"
       /\ (P_Format(FALSE) /\ ~video_format_) =>
            /\ cpc' = "loop"
            /\ cframe' = "none"
            /\ "NoFormat" \in ccaught'
       /\ P_ReadFrame("Timeout") => (cpc' = "loop" /\ cframe' = "none")
       /\ P_Format(TRUE) => ~video_format_
       /\ video_format_ => video_format_']_vars

C29_Witness ==
    /\ cpc = "callback"
    /\ "NoFormat" \in ccaught
    /\ ulast = "start"
    /\ processing_thread_ = "running"
    /\ video_format_

\* C24: stop() called by the owner of the client eventually returns, given
\* that reads and callbacks return; once the stop is requested the loop
\* test starts no new iteration, so at most one callback (for the frame
\* whose read was in progress) begins after the request.
C24_StopReturns ==
    /\ (ucall = "stop") ~> (ucall = "none" /\ ulast = "stop")
    /\ [](nafter <= 1)
    /\ [][(stop_requested_ /\ cpc \in {"loop", "mloop"}) =>
            cpc' \in {"loop", "mloop", "idle"}]_vars

C24_Witness ==
    /\ ucall = "stop"
    /\ stop_requested_
    /\ nafter = 1
    /\ cpc = "callback"

\* C28: is_running() reflects whether the client is still processing: when
\* the processing thread has ended, is_running() becomes false, also when
\* nobody calls stop().
C28_RunningFollowsThread ==
    (processing_thread_ = "finished") ~> ~running_

\* C25: acquire-then-release in the consumers: in the shared-memory loop of
\* the client and in the minimal example a frame is held only between the
\* read_frame that returned it and the end of the callback or processing
\* for it; no frame is held at the loop test, at the next read_frame or
\* after the loop, on the normal path and on every exception path, and the
\* callback runs only while its frame is held.
C25_FrameScope ==
    [][/\ cframe' = "held" <=> cpc' \in {"got", "callback"}
       /\ mframe' = "held" <=> mpc' = "process"
       /\ (cframe = "held" /\ cframe' = "none") =>
            (P_Callback \/ P_CallbackStops \/ (P_Format(FALSE) /\ ~video_format_))
       /\ (mframe = "held" /\ mframe' = "none") =>
            (M_Process /\ frame_count' = frame_count + 1)
       /\ (\E res \in ReadResults : P_ReadFrame(res)) => cframe = "none"
       /\ (\E res \in ReadResults : M_ReadFrame(res)) => mframe = "none"]_vars

C25_Witness ==
    /\ cpc = "read"
    /\ cframe = "none"
    /\ ccaught = {"NoFormat", "system_error"}
    /\ video_format_
    /\ mpc = "exit"
    /\ mframe = "none"
    /\ frame_count = 2
    /\ exit_after = 2

\* C22: at most one processing thread exists per client, also when two
\* threads call start() concurrently: a handle that owns a live thread is
\* never overwritten.  (Overwriting it ends the process in std::terminate,
\* which the model records.)
C22_OneProcessingThread == ~terminated

\* C26: the connection string is the first argument that starts with
\* 'shm://', 'mjpeg+http://' or 'mjpeg+tcp://', otherwise the value of
\* CONNECTION_STRING if it is set, otherwise 'shm://default', and from_args
\* and Client::from select the same string for every combination of
\* arguments and environment.
C26_SameSelection ==
    LET arg == FirstArg(sargs, {i \in 1..Len(sargs) : StartsWithScheme(sargs[i])})
        expected == IF arg # <<>> THEN arg[1]
                    ELSE IF senv # <<>> THEN senv[1]
                    ELSE <<"s", "h", "m", ":", "/", "/", "d", "e", "f", "a", "u", "l", "t">>
    IN  /\ sfrom_args # <<>> => sfrom_args[1] = expected
        /\ sfrom # <<>> => sfrom[1] = expected
        /\ (sfrom_args # <<>> /\ sfrom # <<>>) => sfrom_args = sfrom

\* The length prefix of the metadata, for metadata of five bytes or more
\* whose prefix is below 2^16; any other prefix counts as larger than every
\* metadata size tried.
C27_Prefix ==
    IF dmeta[3] = 0 /\ dmeta[4] = 0 THEN dmeta[1] + 256 * dmeta[2] ELSE 65536

\* C27: parse_metadata reads the four-byte little-endian prefix and then that
\* many bytes and never reads past the metadata; with metadata of four bytes
\* or fewer, a null pointer, a prefix of zero or a prefix beyond the bytes
\* that follow it, the video format stays unset and no byte after the prefix
\* is read; and whatever goes wrong in parsing, the call returns.
C27_MetadataParseSafe ==
    doutcome.state # "pending" =>
        /\ doutcome.state = "returned"
        /\ dreads <= Len(dmeta)
        /\ IF Len(dmeta) <= 4 \/ ~dptr
           THEN dreads = 0 /\ ~doutcome.format
           ELSE IF C27_Prefix = 0 \/ C27_Prefix > Len(dmeta) - 4
           THEN dreads = 4 /\ ~doutcome.format
           ELSE /\ dreads = 4 + C27_Prefix
                /\ doutcome.format <=> doutcome.json \in {"caps", "fields"}

C27_Witness ==
    /\ doutcome.state = "returned"
    /\ dmeta = <<2, 0, 0, 0, 255, 1>>
    /\ dreads = 6
    /\ doutcome.json = "caps_throws"
    /\ ~doutcome.format

\* C30: to_string followed by parse is a round trip for shm connections:
\* for every buffer name (empty, unset, or with '/', '?' or '&' in it),
\* every pair of sizes and every mode, parse(c.to_string()) returns a
\* connection with the protocol, buffer_name, buffer_size, metadata_size
\* and mode of c.
C30_RoundTrip ==
    roundBack.state # "pending" =>
        /\ roundBack.state = "returned"
        /\ roundBack.value.protocol = roundConn[1].protocol
        /\ roundBack.value.buffer_name = roundConn[1].buffer_name
        /\ roundBack.value.buffer_size = roundConn[1].buffer_size
        /\ roundBack.value.metadata_size = roundConn[1].metadata_size
        /\ roundBack.value.mode = roundConn[1].mode

=============================================================================
